---- MODULE Spec2Model ----
(***************************************************************************)
(* Correlation and trust engine of Vigil (src/src/engine.rs), driven by    *)
(* the ETW callbacks of src/src/etw.rs and src/Vigil/src/etw.rs.           *)
(*                                                                         *)
(* Strings are sequences of one-character strings, so that to_lowercase,   *)
(* contains and ends_with are computed, not assumed.  Instants are         *)
(* milliseconds on a monotonic clock `now`; one callback runs at one       *)
(* instant (the ETW session delivers records to its callbacks one at a     *)
(* time, on the single thread that processes the trace).                   *)
(***************************************************************************)
EXTENDS Integers, Sequences, FiniteSets, TLC

\* Option<T>: None is the empty sequence, Some(x) the sequence of x alone
None == <<>>
Some(x) == <<x>>
IsSome(o) == o # <<>>
Unwrap(o) == o[1]

----------------------------------------------------------------------------
(* Bounds of the exploration *)

\* number of steps after startup (records delivered and clock advances) in
\* each specification
TrustSteps == 3
DedupSteps == 5
KeySteps == 4
TtlSteps == 5
SinkSteps == 4
SendSteps == 3
FrameSteps == 3
PreflightSteps == 4
OrderSteps == 3
RaceSteps == 4
LockSteps == 2

\* number of records the session's buffer takes in SpecOrder
OrderLen == 3
ProcSteps == 3

----------------------------------------------------------------------------
(* Strings *)

\* char::to_lowercase on the letters that occur in the modelled strings
LowerChar(c) ==
    CASE c = "A" -> "a"
      [] c = "D" -> "d"
      [] c = "E" -> "e"
      [] c = "L" -> "l"
      [] c = "M" -> "m"
      [] c = "P" -> "p"
      [] c = "S" -> "s"
      [] c = "T" -> "t"
      [] c = "X" -> "x"
      [] c = "Y" -> "y"
      [] OTHER -> c

\* str::to_lowercase
to_lowercase(s) == [i \in 1..Len(s) |-> LowerChar(s[i])]

\* str::contains(&str): the pattern occurs at some offset
contains(s, pat) ==
    \E i \in 0..(Len(s) - Len(pat)) : SubSeq(s, i + 1, i + Len(pat)) = pat

\* str::ends_with(&str)
ends_with(s, suffix) ==
    /\ Len(suffix) <= Len(s)
    /\ SubSeq(s, Len(s) - Len(suffix) + 1, Len(s)) = suffix

\* Vec<String> -> Vec<String>, each element lower-cased
LowerAll(v) == [i \in 1..Len(v) |-> to_lowercase(v[i])]

\* the values of a sequence
Range(v) == {v[i] : i \in 1..Len(v)}

----------------------------------------------------------------------------
(* The literals of the engine *)

STR_SYSTEM == <<"S", "Y", "S", "T", "E", "M">>
STR_UNKNOWN == <<"u", "n", "k", "n", "o", "w", "n">>
STR_DOT_EXE == <<".", "e", "x", "e">>

KIND_PROTECTED == "protected_resource_access"
KIND_SUSPICIOUS == "suspicious_whitelisted_handle_access"
NOTE_PROTECTED == "untrusted process attempted access to protected resource"
NOTE_SUSPICIOUS == "untrusted process touched protected resource via whitelisted file object"

\* Duration::from_secs(10) in resolve_process_image, in ms
IMAGE_TTL_MS == 10000
\* Duration::from_secs(60) in is_pid_trusted, in ms
TRUST_TTL_MS == 60000
\* the factor of the eviction age in should_suppress (suppress * 8)
EVICT_FACTOR == 8
\* map.len() > 50_000 in should_suppress; scaled down so that the eviction
\* branch is taken with the few (pid, target) pairs of the model
LAST_ALERT_CAP == 2

----------------------------------------------------------------------------
(* Inputs: paths, images, pids, kernel values *)

\* "...\Login Data", written in upper case by the kernel
PATH_LOGIN == <<"\\", "L", "D">>
\* a path that holds "ld" without the separator
PATH_OLD == <<"x", "l", "d">>
\* an unprotected path
PATH_TMP == <<"t", "m", "p">>

IMG_ATTACKER == <<"a", ".", "e", "x", "e">>
IMG_SIGNED == <<"s", ".", "E", "X", "E">>
IMG_EXPLORER == <<"\\", "E", ".", "e", "x", "e">>

SUBJ_MS == <<"M", "S">>
SUBJ_EVIL == <<"e", "v">>

\* pid 4 is the SYSTEM pid (pid 0 takes the same branches everywhere)
Pids == {4, 200, 300}

\* event ids of the kernel-file provider: bind, access, close, close, other
EventIds == {0, 12, 65, 66, 14}

----------------------------------------------------------------------------
(* Configuration: config.rs *)

\* rules of [[watch.protected]]: "Chrome Passwords", "Login Data", "Temp",
\* and a rule whose substring is empty
RULE_SEP == [substring |-> <<"\\", "L", "d">>, name |-> <<"C", "P">>]
RULE_ANY == [substring |-> <<"l", "D">>, name |-> <<"L", "o">>]
RULE_TMP == [substring |-> <<"T", "M", "P">>, name |-> <<"T", "e">>]
RULE_EMPTY == [substring |-> <<>>, name |-> <<"E", "m">>]

\* the text of config.toml, parsed: a signer allowlist and one legacy
\* process name
RAW_SIGNERS ==
    [general |-> [suppress_ms |-> 1500],
     watch |-> [protected |-> <<RULE_SEP, RULE_ANY>>, protected_substrings |-> <<>>],
     allowlist |-> [signer_subject_allow |-> << <<"m", "S">> >>,
                    process_name_allow |-> << <<"\\", "e", ".", "E", "X", "E">> >>]]

\* the rules in the other order, any valid signature trusted, the SYSTEM
\* image allowlisted by name
RAW_SYSTEM ==
    [general |-> [suppress_ms |-> 1500],
     watch |-> [protected |-> <<RULE_ANY, RULE_SEP>>, protected_substrings |-> <<>>],
     allowlist |-> [signer_subject_allow |-> <<>>,
                    process_name_allow |-> << <<"S", "y", "s", "t", "e", "m">> >>]]

RawConfigs == {RAW_SIGNERS, RAW_SYSTEM}

\* faulty variant: the legacy strings make rules after those of protected
ConfigLoad_legacy_appended(raw) ==
    LET prot == [i \in 1..Len(raw.watch.protected) |->
                    [substring |-> to_lowercase(raw.watch.protected[i].substring),
                     name |-> raw.watch.protected[i].name]]
        subs == LowerAll(raw.watch.protected_substrings)
    IN  [general |-> raw.general,
         watch |-> [protected |->
                        prot \o [i \in 1..Len(subs) |->
                                    [substring |-> subs[i], name |-> subs[i]]],
                    protected_substrings |-> subs],
         allowlist |-> [signer_subject_allow |-> LowerAll(raw.allowlist.signer_subject_allow),
                        process_name_allow |-> LowerAll(raw.allowlist.process_name_allow)]]

\* Config::load after toml::from_str
ConfigLoad(raw) ==
    LET prot == [i \in 1..Len(raw.watch.protected) |->
                    [substring |-> to_lowercase(raw.watch.protected[i].substring),
                     name |-> raw.watch.protected[i].name]]
        subs == LowerAll(raw.watch.protected_substrings)
    IN  [general |-> raw.general,
         watch |-> [protected |->
                        IF Len(prot) = 0 /\ Len(subs) # 0
                        THEN [i \in 1..Len(subs) |-> [substring |-> subs[i], name |-> subs[i]]]
                        ELSE prot,
                    protected_substrings |-> subs],
         allowlist |-> [signer_subject_allow |-> LowerAll(raw.allowlist.signer_subject_allow),
                        process_name_allow |-> LowerAll(raw.allowlist.process_name_allow)]]

Configs == {ConfigLoad(raw) : raw \in RawConfigs}

----------------------------------------------------------------------------
(* State *)

VARIABLES
    cfg,                        \* Engine.cfg
    proc_cache,                 \* Engine.proc_cache: pid -> ProcMeta
    filekey_cache,              \* Engine.filekey_cache: file_key -> file name
    last_alert,                 \* Engine.last_alert: dedupe key -> Instant
    whitelisted_file_objects,   \* Engine.whitelisted_file_objects: object -> pids
    alert_tx,                   \* every Alert sent on the channel, in order
    alert_rx,                   \* the Receiver of main: whether it is alive, and
                                \* the alerts recv has returned, in order
    session,                    \* the ETW session: "idle", "running" or "ended"
    now,                        \* the monotonic clock (Instant::now), ms
    pc,                         \* position of main: "boot", "running" (the consumer
                                \* loop), "done" (the loop broke on a receive
                                \* error) or "failed" (main returned an error)
    steps,                      \* records and clock advances still to come
    last,                       \* the operation of the last step and its results
    observed,                   \* history: <<file_object, pid>> of the accesses
                                \* made by a pid the engine found trusted
    send_failed,                \* history: a send on the channel returned an error
    etw,                        \* the session's buffer: the records logged, in order,
                                \* and the positions of those the callback has handled
    inflight                    \* a call of resolve_process_image that has released
                                \* proc_cache and not yet locked it again: its pid

vars == <<cfg, proc_cache, filekey_cache, last_alert, whitelisted_file_objects,
          alert_tx, alert_rx, session, now, pc, steps, last, observed,
          send_failed, etw, inflight>>

\* HashMap helpers
EmptyMap == [k \in {} |-> None]
MapGet(m, k) == IF k \in DOMAIN m THEN Some(m[k]) ELSE None
MapInsert(m, k, v) == [x \in (DOMAIN m) \cup {k} |-> IF x = k THEN v ELSE m[x]]
MapRemove(m, k) == [x \in (DOMAIN m) \ {k} |-> m[x]]

\* the shape of `last`: the operation, its inputs (pid, event_id, file_key,
\* file_object, file_name), what the map written by the step held before it
\* for the key or pid (prev),
\* the results of the steps of the decision tree (target, rule, proc_path,
\* whether the operating system was asked for the image, trusted, and the
\* kind passed to Engine::alert, and the result of the send when the alert
\* was not suppressed), and what the external collaborators
\* answered to a process record (verdict), to the preflight (enum,
\* handles) or to the image query of an access (os), and
\* the mutex acquisitions, releases and external calls of the handler, in
\* the order it made them (locks)
Op(op) ==
    [op |-> op, pid |-> None, event_id |-> None, file_key |-> None,
     file_object |-> None, file_name |-> None, prev |-> None, target |-> None,
     rule |-> None, proc_path |-> None, lookup |-> None, trusted |-> None,
     kind |-> None, send |-> None, verdict |-> None, enum |-> None,
     handles |-> None, os |-> None, locks |-> <<>>]

----------------------------------------------------------------------------
(* External collaborators *)

\* sigcheck::verify_file_signature: WinVerifyTrust's status and, when it
\* succeeded, the signer subject found in the file (or none)
Verdicts ==
    { [is_signed |-> FALSE, signer_subject |-> None],
      [is_signed |-> TRUE, signer_subject |-> Some(SUBJ_MS)],
      [is_signed |-> TRUE, signer_subject |-> Some(SUBJ_EVIL)] }

\* process::get_process_image_path as the operating system answers it for a
\* pid other than 0 and 4: an image path, or None when the query fails
OsImages == {None, Some(IMG_ATTACKER), Some(IMG_EXPLORER)}

\* process::get_process_image_path
get_process_image_path(pid, os) ==
    IF pid = 0 \/ pid = 4 THEN Some(STR_SYSTEM) ELSE os

----------------------------------------------------------------------------
(* Engine: engine.rs *)

\* faulty variant: the unsigned verdict is not turned away first
trust_for_path_fail_open(c, verdict) ==
    IF c.allowlist.signer_subject_allow # <<>>
    THEN LET subj == to_lowercase(IF IsSome(verdict.signer_subject)
                                  THEN Unwrap(verdict.signer_subject) ELSE <<>>)
             ok == \E needle \in Range(c.allowlist.signer_subject_allow) :
                        contains(subj, needle)
         IN  [is_signed |-> verdict.is_signed, is_trusted |-> ok,
              signer_subject |-> verdict.signer_subject]
    ELSE [is_signed |-> verdict.is_signed, is_trusted |-> TRUE,
          signer_subject |-> verdict.signer_subject]

\* Engine::trust_for_path, given the verdict of verify_file_signature
trust_for_path(c, verdict) ==
    IF ~verdict.is_signed
    THEN [is_signed |-> FALSE, is_trusted |-> FALSE, signer_subject |-> None]
    ELSE IF c.allowlist.signer_subject_allow # <<>>
    THEN LET subj == to_lowercase(IF IsSome(verdict.signer_subject)
                                  THEN Unwrap(verdict.signer_subject) ELSE <<>>)
             ok == \E needle \in Range(c.allowlist.signer_subject_allow) :
                        contains(subj, needle)
         IN  [is_signed |-> TRUE, is_trusted |-> ok,
              signer_subject |-> verdict.signer_subject]
    ELSE [is_signed |-> TRUE, is_trusted |-> TRUE,
          signer_subject |-> verdict.signer_subject]

\* faulty variant: a pid that was trusted stays trusted when it is overwritten
on_process_start_sticky(c, cache, pid, image, verdict, t) ==
    IF ~ends_with(to_lowercase(image), STR_DOT_EXE)
    THEN cache
    ELSE LET trust == trust_for_path(c, verdict)
         IN  MapInsert(cache, pid,
                       [image |-> image, ts |-> t,
                        is_trusted_signed |->
                            \/ trust.is_trusted
                            \/ (pid \in DOMAIN cache /\ cache[pid].is_trusted_signed),
                        signer_subject |-> trust.signer_subject])

\* faulty variant: the image is not tested for the .exe suffix
on_process_start_any_image(c, cache, pid, image, verdict, t) ==
    LET trust == trust_for_path(c, verdict)
    IN  MapInsert(cache, pid,
                  [image |-> image, ts |-> t,
                   is_trusted_signed |-> trust.is_trusted,
                   signer_subject |-> trust.signer_subject])

\* Engine::on_process_start: the proc_cache it leaves
on_process_start(c, cache, pid, image, verdict, t) ==
    IF ~ends_with(to_lowercase(image), STR_DOT_EXE)
    THEN cache
    ELSE LET trust == trust_for_path(c, verdict)
         IN  MapInsert(cache, pid,
                       [image |-> image, ts |-> t,
                        is_trusted_signed |-> trust.is_trusted,
                        signer_subject |-> trust.signer_subject])

\* faulty variant: a key already bound keeps its first name
on_file_name_mapping_keeping(fk, file_key, file_name) ==
    IF file_key \in DOMAIN fk THEN fk ELSE MapInsert(fk, file_key, file_name)

\* Engine::on_file_name_mapping
on_file_name_mapping(fk, file_key, file_name) == MapInsert(fk, file_key, file_name)

\* faulty variant: a close drops every binding
clear_file_key_all(fk, file_key) == EmptyMap

\* Engine::clear_file_key
clear_file_key(fk, file_key) == MapRemove(fk, file_key)

\* Engine::resolve_file_key
resolve_file_key(fk, file_key) == MapGet(fk, file_key)

\* faulty variant: pids 0 and 4 are resolved like any other pid
resolve_process_image_unguarded(cache, pid, os, t) ==
    IF pid \in DOMAIN cache /\ t - cache[pid].ts <= IMAGE_TTL_MS
    THEN [image |-> cache[pid].image, cache |-> cache, lookup |-> FALSE]
    ELSE LET o == get_process_image_path(pid, os)
             img == IF IsSome(o) THEN Unwrap(o) ELSE STR_UNKNOWN
         IN  [image |-> img,
              lookup |-> TRUE,
              cache |-> MapInsert(cache, pid,
                                  [image |-> img, ts |-> t,
                                   is_trusted_signed |-> FALSE,
                                   signer_subject |-> None])]

\* faulty variant: a ProcMeta exactly as old as the ttl is already stale
resolve_process_image_exclusive(cache, pid, os, t) ==
    IF pid = 0 \/ pid = 4
    THEN [image |-> STR_SYSTEM, cache |-> cache, lookup |-> FALSE]
    ELSE IF pid \in DOMAIN cache /\ t - cache[pid].ts < IMAGE_TTL_MS
    THEN [image |-> cache[pid].image, cache |-> cache, lookup |-> FALSE]
    ELSE LET o == get_process_image_path(pid, os)
             img == IF IsSome(o) THEN Unwrap(o) ELSE STR_UNKNOWN
         IN  [image |-> img,
              lookup |-> TRUE,
              cache |-> MapInsert(cache, pid,
                                  [image |-> img, ts |-> t,
                                   is_trusted_signed |-> FALSE,
                                   signer_subject |-> None])]

\* Engine::resolve_process_image: the image returned, whether
\* process::get_process_image_path was called, and the proc_cache left
resolve_process_image(cache, pid, os, t) ==
    IF pid = 0 \/ pid = 4
    THEN [image |-> STR_SYSTEM, cache |-> cache, lookup |-> FALSE]
    ELSE IF pid \in DOMAIN cache /\ t - cache[pid].ts <= IMAGE_TTL_MS
    THEN [image |-> cache[pid].image, cache |-> cache, lookup |-> FALSE]
    ELSE LET o == get_process_image_path(pid, os)
             img == IF IsSome(o) THEN Unwrap(o) ELSE STR_UNKNOWN
         IN  [image |-> img,
              lookup |-> TRUE,
              cache |-> MapInsert(cache, pid,
                                  [image |-> img, ts |-> t,
                                   is_trusted_signed |-> FALSE,
                                   signer_subject |-> None])]

\* the loop of Engine::match_protected_rule from rule i on
RECURSIVE ScanRules(_, _, _)
ScanRules(rules, p, i) ==
    IF i > Len(rules) THEN None
    ELSE IF contains(p, rules[i].substring)
    THEN Some(<<rules[i].name, rules[i].substring>>)
    ELSE ScanRules(rules, p, i + 1)

\* faulty variant: the pair is returned as (substring, name)
match_protected_rule_swapped(c, path) ==
    LET m == ScanRules(c.watch.protected, to_lowercase(path), 1)
    IN  IF IsSome(m) THEN Some(<<Unwrap(m)[2], Unwrap(m)[1]>>) ELSE None

\* faulty variant: the last matching rule wins
match_protected_rule_last(c, path) ==
    LET p == to_lowercase(path)
        rules == c.watch.protected
        hits == {i \in DOMAIN rules : contains(p, rules[i].substring)}
    IN  IF hits = {} THEN None
        ELSE LET i == CHOOSE h \in hits : \A g \in hits : g <= h
             IN  Some(<<rules[i].name, rules[i].substring>>)

\* Engine::match_protected_rule
match_protected_rule(c, path) == ScanRules(c.watch.protected, to_lowercase(path), 1)

\* Engine::is_legacy_allowlisted_process_name
is_legacy_allowlisted_process_name(c, proc_path) ==
    LET p == to_lowercase(proc_path)
    IN  \E suffix \in Range(c.allowlist.process_name_allow) : ends_with(p, suffix)

\* faulty variant: a trusted ProcMeta never expires
is_pid_trusted_no_ttl(c, cache, pid, proc_path, t) ==
    IF pid \in DOMAIN cache /\ cache[pid].is_trusted_signed
    THEN TRUE
    ELSE is_legacy_allowlisted_process_name(c, proc_path)

\* Engine::is_pid_trusted
is_pid_trusted(c, cache, pid, proc_path, t) ==
    IF /\ pid \in DOMAIN cache
       /\ t - cache[pid].ts <= TRUST_TTL_MS
       /\ cache[pid].is_trusted_signed
    THEN TRUE
    ELSE is_legacy_allowlisted_process_name(c, proc_path)

\* faulty variant: the guard on file_object is inverted, nothing is ever learned
learn_whitelisted_file_object_inverted(wl, file_object, pid) ==
    IF file_object # 0 \/ pid = 0 \/ pid = 4
    THEN wl
    ELSE MapInsert(wl, file_object,
                   (IF file_object \in DOMAIN wl THEN wl[file_object] ELSE {}) \cup {pid})

\* faulty variant: the owner set is replaced by the pid instead of extended
learn_whitelisted_file_object_replacing(wl, file_object, pid) ==
    IF file_object = 0 \/ pid = 0 \/ pid = 4
    THEN wl
    ELSE MapInsert(wl, file_object, {pid})

\* Engine::learn_whitelisted_file_object
learn_whitelisted_file_object(wl, file_object, pid) ==
    IF file_object = 0 \/ pid = 0 \/ pid = 4
    THEN wl
    ELSE MapInsert(wl, file_object,
                   (IF file_object \in DOMAIN wl THEN wl[file_object] ELSE {}) \cup {pid})

\* Engine::whitelisted_file_object_owner
whitelisted_file_object_owner(wl, file_object) == MapGet(wl, file_object)

\* Engine::dedupe_key.  DefaultHasher (SipHash-1-3 with fixed keys) over pid
\* and target; taken to be free of collisions on the modelled inputs, so the
\* key is the pair that was hashed.
dedupe_key(pid, target) == <<pid, target>>

\* faulty variant: the comparison with the window is inverted
should_suppress_inverted(c, map, pid, target, t) ==
    LET key == dedupe_key(pid, target)
        suppress == c.general.suppress_ms
    IN  IF key \in DOMAIN map /\ t - map[key] >= suppress
        THEN [suppressed |-> TRUE, map |-> map]
        ELSE [suppressed |-> FALSE, map |-> MapInsert(map, key, t)]

\* faulty variant: a suppressed access restarts the window
should_suppress_sliding(c, map, pid, target, t) ==
    LET key == dedupe_key(pid, target)
        suppress == c.general.suppress_ms
    IN  IF key \in DOMAIN map /\ t - map[key] < suppress
        THEN [suppressed |-> TRUE, map |-> MapInsert(map, key, t)]
        ELSE [suppressed |-> FALSE, map |-> MapInsert(map, key, t)]

\* faulty variant: an access exactly suppress_ms after the alert is still
\* suppressed
should_suppress_inclusive(c, map, pid, target, t) ==
    LET key == dedupe_key(pid, target)
        suppress == c.general.suppress_ms
    IN  IF key \in DOMAIN map /\ t - map[key] <= suppress
        THEN [suppressed |-> TRUE, map |-> map]
        ELSE LET ins == MapInsert(map, key, t)
                 kept == {k \in DOMAIN ins : t - ins[k] < suppress * EVICT_FACTOR}
             IN  [suppressed |-> FALSE,
                  map |-> IF Cardinality(DOMAIN ins) > LAST_ALERT_CAP
                          THEN [k \in kept |-> ins[k]]
                          ELSE ins]

\* Engine::should_suppress: its result and the last_alert map it leaves
should_suppress(c, map, pid, target, t) ==
    LET key == dedupe_key(pid, target)
        suppress == c.general.suppress_ms
    IN  IF key \in DOMAIN map /\ t - map[key] < suppress
        THEN [suppressed |-> TRUE, map |-> map]
        ELSE LET ins == MapInsert(map, key, t)
                 kept == {k \in DOMAIN ins : t - ins[k] < suppress * EVICT_FACTOR}
             IN  [suppressed |-> FALSE,
                  map |-> IF Cardinality(DOMAIN ins) > LAST_ALERT_CAP
                          THEN [k \in kept |-> ins[k]]
                          ELSE ins]

\* Alert::new; `at` is the instant of the send (ts_unix is the wall clock at
\* that instant)
NewAlert(pid, process, target, data_name, event_id, kind, note, t) ==
    [pid |-> pid, process |-> process, target |-> target, data_name |-> data_name,
     event_id |-> event_id, kind |-> kind, note |-> note, at |-> t]

\* Sender::send on the unbounded channel: never blocks, and fails only when
\* the Receiver is gone
send(tx, open, a) ==
    IF open THEN [tx |-> Append(tx, a), ok |-> TRUE] ELSE [tx |-> tx, ok |-> FALSE]

\* faulty variant: the dedup key also tells the alert kinds apart
alert_keyed_by_kind(c, tx, open, map, pid, process, target, data_name, event_id, kind, note, t) ==
    LET s == should_suppress(c, map, pid, <<target, kind>>, t)
        r == send(tx, open, NewAlert(pid, process, target, data_name,
                                     event_id, kind, note, t))
    IN  IF s.suppressed
        THEN [tx |-> tx, map |-> s.map, send |-> None]
        ELSE [tx |-> r.tx, map |-> s.map, send |-> Some(r.ok)]

\* Engine::alert: the channel and the last_alert map it leaves, and the
\* result of the send, which the engine discards (let _ =)
alert(c, tx, open, map, pid, process, target, data_name, event_id, kind, note, t) ==
    LET s == should_suppress(c, map, pid, target, t)
        r == send(tx, open, NewAlert(pid, process, target, data_name,
                                     event_id, kind, note, t))
    IN  IF s.suppressed
        THEN [tx |-> tx, map |-> s.map, send |-> None]
        ELSE [tx |-> r.tx, map |-> s.map, send |-> Some(r.ok)]

----------------------------------------------------------------------------
(* Startup: Engine::preflight_trusted_handles, handles.rs *)

\* what the operating system shows at startup: for each live pid the answer
\* to the image query and the signature verdict of that image
ProcTables ==
    { EmptyMap,
      [pid \in {4, 200, 300} |->
          IF pid = 200
          THEN [image |-> Some(IMG_SIGNED),
                verdict |-> [is_signed |-> TRUE, signer_subject |-> Some(SUBJ_MS)]]
          ELSE [image |-> IF pid = 4 THEN Some(STR_SYSTEM) ELSE Some(IMG_ATTACKER),
                verdict |-> [is_signed |-> FALSE, signer_subject |-> None]]],
      [pid \in {200, 300} |->
          IF pid = 200
          THEN [image |-> None,
                verdict |-> [is_signed |-> TRUE, signer_subject |-> Some(SUBJ_MS)]]
          ELSE [image |-> Some(IMG_EXPLORER),
                verdict |-> [is_signed |-> TRUE, signer_subject |-> Some(SUBJ_EVIL)]]] }

\* EnumProcesses: None when it fails
EnumResults == {None} \cup {Some(tb) : tb \in ProcTables}

\* NtQuerySystemInformation: the file-type entries of the handle table,
\* None when the query fails
HandleTables ==
    { None,
      Some({}),
      Some({[Object |-> 43981, UniqueProcessId |-> 200]}),
      Some({[Object |-> 43981, UniqueProcessId |-> 200],
            [Object |-> 43981, UniqueProcessId |-> 300],
            [Object |-> 16, UniqueProcessId |-> 300],
            [Object |-> 16, UniqueProcessId |-> 4],
            [Object |-> 0, UniqueProcessId |-> 200]}) }

\* faulty variant: the snapshot is not restricted to the trusted pids
collect_file_objects_for_pids_unrestricted(trusted_pids, handles) ==
    IF ~IsSome(handles)
    THEN EmptyMap
    ELSE LET es == {e \in Unwrap(handles) : e.Object # 0}
         IN  [obj \in {e.Object : e \in es} |->
                 {e.UniqueProcessId : e \in {x \in es : x.Object = obj}}]

\* faulty variant: the entry of an object is created before the owner is
\* tested against the trusted pids
collect_file_objects_for_pids_eager(trusted_pids, handles) ==
    IF ~IsSome(handles)
    THEN EmptyMap
    ELSE LET es == {e \in Unwrap(handles) : e.Object # 0}
         IN  [obj \in {e.Object : e \in es} |->
                 {e.UniqueProcessId : e \in {x \in es : x.Object = obj}}
                 \cap trusted_pids]

\* handles::collect_file_objects_for_pids
collect_file_objects_for_pids(trusted_pids, handles) ==
    IF ~IsSome(handles)
    THEN EmptyMap
    ELSE LET es == {e \in Unwrap(handles) :
                        e.UniqueProcessId \in trusted_pids /\ e.Object # 0}
         IN  [obj \in {e.Object : e \in es} |->
                 {e.UniqueProcessId : e \in {x \in es : x.Object = obj}}]

\* faulty variant: a snapshot entry replaces the owner set the registry held
preflight_trusted_handles_replacing(c, cache, wl, enum, handles, t) ==
    IF ~IsSome(enum)
    THEN [cache |-> cache, wl |-> wl]
    ELSE LET tb == Unwrap(enum)
             img(pid) == get_process_image_path(pid, tb[pid].image)
             trust(pid) == trust_for_path(c, tb[pid].verdict)
             trusted_pids == {pid \in DOMAIN tb : IsSome(img(pid)) /\ trust(pid).is_trusted}
             cache2 == [pid \in (DOMAIN cache) \cup trusted_pids |->
                           IF pid \in trusted_pids
                           THEN [image |-> Unwrap(img(pid)), ts |-> t,
                                 is_trusted_signed |-> TRUE,
                                 signer_subject |-> trust(pid).signer_subject]
                           ELSE cache[pid]]
             entries == IF trusted_pids = {} THEN EmptyMap
                        ELSE collect_file_objects_for_pids(trusted_pids, handles)
         IN  [cache |-> cache2,
              wl |-> [obj \in (DOMAIN wl) \cup (DOMAIN entries) |->
                         IF obj \in DOMAIN entries THEN entries[obj] ELSE wl[obj]]]

\* Engine::preflight_trusted_handles: the proc_cache and the registry it leaves
preflight_trusted_handles(c, cache, wl, enum, handles, t) ==
    IF ~IsSome(enum)
    THEN [cache |-> cache, wl |-> wl]
    ELSE LET tb == Unwrap(enum)
             img(pid) == get_process_image_path(pid, tb[pid].image)
             trust(pid) == trust_for_path(c, tb[pid].verdict)
             trusted_pids == {pid \in DOMAIN tb : IsSome(img(pid)) /\ trust(pid).is_trusted}
             cache2 == [pid \in (DOMAIN cache) \cup trusted_pids |->
                           IF pid \in trusted_pids
                           THEN [image |-> Unwrap(img(pid)), ts |-> t,
                                 is_trusted_signed |-> TRUE,
                                 signer_subject |-> trust(pid).signer_subject]
                           ELSE cache[pid]]
             entries == IF trusted_pids = {} THEN EmptyMap
                        ELSE collect_file_objects_for_pids(trusted_pids, handles)
         IN  [cache |-> cache2,
              wl |-> [obj \in (DOMAIN wl) \cup (DOMAIN entries) |->
                         (IF obj \in DOMAIN wl THEN wl[obj] ELSE {})
                         \cup (IF obj \in DOMAIN entries THEN entries[obj] ELSE {})]]

----------------------------------------------------------------------------
(* The file callback: etw.rs *)

\* file_key of a record: FileKey, else FileObject, else 0
RecFileKey(rec) ==
    IF IsSome(rec.FileKey) THEN Unwrap(rec.FileKey)
    ELSE IF IsSome(rec.FileObject) THEN Unwrap(rec.FileObject)
    ELSE 0

\* file_object of a record: FileObject, else 0
RecFileObject(rec) == IF IsSome(rec.FileObject) THEN Unwrap(rec.FileObject) ELSE 0

\* the engine's maps and the channel, as one value; send is the result of the
\* send made by the callback under way, if it made one
Engine ==
    [proc_cache |-> proc_cache, filekey_cache |-> filekey_cache,
     last_alert |-> last_alert, wl |-> whitelisted_file_objects,
     alert_tx |-> alert_tx, rx_open |-> alert_rx.open, send |-> None]

\* faulty variant: the binding of file_key is preferred to the inline name
resolve_target_binding_first(fk, file_name, file_key) ==
    IF file_key # 0 /\ IsSome(resolve_file_key(fk, file_key))
    THEN resolve_file_key(fk, file_key)
    ELSE file_name

\* the target of an access: the inline name, else the binding of file_key
resolve_target(fk, file_name, file_key) ==
    IF IsSome(file_name) THEN file_name
    ELSE IF file_key # 0 THEN resolve_file_key(fk, file_key)
    ELSE None

\* the branch of a trusted pid: learn the file object, no alert
trusted_access(e, pid, file_object) ==
    IF file_object # 0
    THEN [e EXCEPT !.wl = learn_whitelisted_file_object(e.wl, file_object, pid)]
    ELSE e

\* faulty variant: the registry is not consulted, any file object is suspicious
alert_kind_unchecked(wl, file_object) ==
    IF file_object # 0 THEN KIND_SUSPICIOUS ELSE KIND_PROTECTED

\* the kind of the alert raised for an untrusted pid
alert_kind(wl, file_object) ==
    IF file_object # 0
       /\ IsSome(whitelisted_file_object_owner(wl, file_object))
       /\ Unwrap(whitelisted_file_object_owner(wl, file_object)) # {}
    THEN KIND_SUSPICIOUS
    ELSE KIND_PROTECTED

\* the branch of an untrusted pid: one call of Engine::alert
untrusted_access(c, e, pid, proc_path, target, data_name, event_id, file_object, t) ==
    LET kind == alert_kind(e.wl, file_object)
        note == IF kind = KIND_SUSPICIOUS THEN NOTE_SUSPICIOUS ELSE NOTE_PROTECTED
        r == alert(c, e.alert_tx, e.rx_open, e.last_alert, pid, proc_path, target,
                   data_name, event_id, kind, note, t)
    IN  [e EXCEPT !.alert_tx = r.tx, !.last_alert = r.map, !.send = r.send]

\* faulty variant: the trusted branch does not return and falls through to the alert
access_decision_fallthrough(c, e, trusted, pid, proc_path, target, data_name, event_id, file_object, t) ==
    untrusted_access(c, IF trusted THEN trusted_access(e, pid, file_object) ELSE e,
                     pid, proc_path, target, data_name, event_id, file_object, t)

\* the end of the decision tree, once the pid's trust is known
access_decision(c, e, trusted, pid, proc_path, target, data_name, event_id, file_object, t) ==
    IF trusted
    THEN trusted_access(e, pid, file_object)
    ELSE untrusted_access(c, e, pid, proc_path, target, data_name, event_id,
                          file_object, t)

\* faulty variant: the process image is resolved before the rule is matched
file_access_resolve_first(c, e, rec, os, t) ==
    LET file_key == RecFileKey(rec)
        file_object == RecFileObject(rec)
        target == resolve_target(e.filekey_cache, rec.FileName, file_key)
        l0 == [Op("file_access") EXCEPT
                  !.pid = Some(rec.pid), !.event_id = Some(rec.event_id),
                  !.file_key = Some(file_key), !.file_object = Some(file_object),
                  !.file_name = rec.FileName, !.target = target]
    IN  IF ~IsSome(target)
        THEN [e |-> e, last |-> l0]
        ELSE LET m == match_protected_rule(c, Unwrap(target))
             IN  IF ~IsSome(m)
                 THEN [e |-> [e EXCEPT !.proc_cache =
                                 resolve_process_image(@, rec.pid, os, t).cache],
                       last |-> l0]
                 ELSE LET data_name == Unwrap(m)[1]
                          rp == resolve_process_image(e.proc_cache, rec.pid, os, t)
                          e1 == [e EXCEPT !.proc_cache = rp.cache]
                          tr == is_pid_trusted(c, e1.proc_cache, rec.pid, rp.image, t)
                          e2 == access_decision(c, e1, tr, rec.pid, rp.image,
                                                Unwrap(target), data_name,
                                                rec.event_id, file_object, t)
                      IN  [e |-> e2,
                           last |-> [l0 EXCEPT
                                       !.send = e2.send,
                                       !.rule = m,
                                       !.proc_path = Some(rp.image),
                                       !.lookup = Some(rp.lookup),
                                       !.trusted = Some(tr),
                                       !.kind = IF tr THEN None
                                                ELSE Some(alert_kind(e1.wl, file_object))]]

\* the decision tree of an access record: the engine it leaves and the
\* results of its steps
file_access(c, e, rec, os, t) ==
    LET file_key == RecFileKey(rec)
        file_object == RecFileObject(rec)
        target == resolve_target(e.filekey_cache, rec.FileName, file_key)
        l0 == [Op("file_access") EXCEPT
                  !.pid = Some(rec.pid), !.event_id = Some(rec.event_id),
                  !.file_key = Some(file_key), !.file_object = Some(file_object),
                  !.file_name = rec.FileName, !.target = target]
    IN  IF ~IsSome(target)
        THEN [e |-> e, last |-> l0]
        ELSE LET m == match_protected_rule(c, Unwrap(target))
             IN  IF ~IsSome(m)
                 THEN [e |-> e, last |-> l0]
                 ELSE LET data_name == Unwrap(m)[1]
                          rp == resolve_process_image(e.proc_cache, rec.pid, os, t)
                          e1 == [e EXCEPT !.proc_cache = rp.cache]
                          tr == is_pid_trusted(c, e1.proc_cache, rec.pid, rp.image, t)
                          e2 == access_decision(c, e1, tr, rec.pid, rp.image,
                                                Unwrap(target), data_name,
                                                rec.event_id, file_object, t)
                      IN  [e |-> e2,
                           last |-> [l0 EXCEPT
                                       !.send = e2.send,
                                       !.rule = m,
                                       !.proc_path = Some(rp.image),
                                       !.lookup = Some(rp.lookup),
                                       !.trusted = Some(tr),
                                       !.kind = IF tr THEN None
                                                ELSE Some(alert_kind(e1.wl, file_object))]]

\* faulty variant: the filter on the event id is missing, so that a record
\* of any other id runs the decision tree of an access
file_cb_unfiltered(c, e, rec, os, t) ==
    LET event_id == rec.event_id
        file_key == RecFileKey(rec)
        seen(op) == [Op(op) EXCEPT !.pid = Some(rec.pid),
                                   !.event_id = Some(event_id),
                                   !.file_key = Some(file_key),
                                   !.file_object = Some(RecFileObject(rec)),
                                   !.file_name = rec.FileName]
    IN  IF event_id = 0
        THEN IF file_key = 0 \/ ~IsSome(rec.FileName)
             THEN [e |-> e, last |-> seen("ignored")]
             ELSE [e |-> [e EXCEPT !.filekey_cache =
                              on_file_name_mapping(@, file_key, Unwrap(rec.FileName))],
                   last |-> [seen("file_name_mapping") EXCEPT
                                !.prev = MapGet(e.filekey_cache, file_key)]]
        ELSE IF event_id = 65 \/ event_id = 66
        THEN IF file_key # 0
             THEN [e |-> [e EXCEPT !.filekey_cache = clear_file_key(@, file_key)],
                   last |-> [seen("clear_file_key") EXCEPT
                                !.prev = MapGet(e.filekey_cache, file_key)]]
             ELSE [e |-> e, last |-> seen("ignored")]
        ELSE file_access(c, e, rec, os, t)

\* faulty variant: a close record also takes its file object out of the
\* registry
file_cb_close_forgets(c, e, rec, os, t) ==
    LET event_id == rec.event_id
        file_key == RecFileKey(rec)
        seen(op) == [Op(op) EXCEPT !.pid = Some(rec.pid),
                                   !.event_id = Some(event_id),
                                   !.file_key = Some(file_key),
                                   !.file_object = Some(RecFileObject(rec)),
                                   !.file_name = rec.FileName]
        closed == [e EXCEPT !.wl = [obj \in (DOMAIN e.wl) \ {RecFileObject(rec)} |->
                                       e.wl[obj]]]
    IN  IF event_id # 12 /\ event_id # 0 /\ event_id # 65 /\ event_id # 66
        THEN [e |-> e, last |-> seen("ignored")]
        ELSE IF event_id = 0
        THEN IF file_key = 0 \/ ~IsSome(rec.FileName)
             THEN [e |-> e, last |-> seen("ignored")]
             ELSE [e |-> [e EXCEPT !.filekey_cache =
                              on_file_name_mapping(@, file_key, Unwrap(rec.FileName))],
                   last |-> [seen("file_name_mapping") EXCEPT
                                !.prev = MapGet(e.filekey_cache, file_key)]]
        ELSE IF event_id = 65 \/ event_id = 66
        THEN IF file_key # 0
             THEN [e |-> [closed EXCEPT !.filekey_cache = clear_file_key(@, file_key)],
                   last |-> [seen("clear_file_key") EXCEPT
                                !.prev = MapGet(e.filekey_cache, file_key)]]
             ELSE [e |-> closed, last |-> seen("ignored")]
        ELSE file_access(c, e, rec, os, t)

\* file_cb of run_trace, event_record_callback for the kernel-file provider
file_cb(c, e, rec, os, t) ==
    LET event_id == rec.event_id
        file_key == RecFileKey(rec)
        seen(op) == [Op(op) EXCEPT !.pid = Some(rec.pid),
                                   !.event_id = Some(event_id),
                                   !.file_key = Some(file_key),
                                   !.file_object = Some(RecFileObject(rec)),
                                   !.file_name = rec.FileName]
    IN  IF event_id # 12 /\ event_id # 0 /\ event_id # 65 /\ event_id # 66
        THEN [e |-> e, last |-> seen("ignored")]
        ELSE IF event_id = 0
        THEN IF file_key = 0 \/ ~IsSome(rec.FileName)
             THEN [e |-> e, last |-> seen("ignored")]
             ELSE [e |-> [e EXCEPT !.filekey_cache =
                              on_file_name_mapping(@, file_key, Unwrap(rec.FileName))],
                   last |-> [seen("file_name_mapping") EXCEPT
                                !.prev = MapGet(e.filekey_cache, file_key)]]
        ELSE IF event_id = 65 \/ event_id = 66
        THEN IF file_key # 0
             THEN [e |-> [e EXCEPT !.filekey_cache = clear_file_key(@, file_key)],
                   last |-> [seen("clear_file_key") EXCEPT
                                !.prev = MapGet(e.filekey_cache, file_key)]]
             ELSE [e |-> e, last |-> seen("ignored")]
        ELSE file_access(c, e, rec, os, t)

----------------------------------------------------------------------------
(* Mutex scopes and external calls of the handlers, in program order *)

Acquire(m) == [ev |-> "acquire", on |-> m]
Release(m) == [ev |-> "release", on |-> m]
Call(f) == [ev |-> "call", on |-> f]

\* a statement of the form self.m.lock().op(..): the guard is a temporary,
\* dropped at the end of the statement
Locked(m) == <<Acquire(m), Release(m)>>

\* Engine::trust_for_path: verify_file_signature, then cfg only
trust_for_path_locks == <<Call("verify_file_signature")>>

\* Engine::on_process_start
on_process_start_locks(image) ==
    IF ~ends_with(to_lowercase(image), STR_DOT_EXE)
    THEN <<>>
    ELSE trust_for_path_locks \o Locked("proc_cache")

\* faulty variant: the image query is made inside the if-let on the guarded
\* lookup, whose guard lives to the end of the statement
resolve_process_image_locks_held(cache, pid, t) ==
    IF pid = 0 \/ pid = 4
    THEN <<>>
    ELSE <<Acquire("proc_cache")>>
         \o (IF resolve_process_image(cache, pid, None, t).lookup
             THEN <<Call("get_process_image_path")>>
             ELSE <<>>)
         \o <<Release("proc_cache")>>
         \o (IF resolve_process_image(cache, pid, None, t).lookup
             THEN Locked("proc_cache")
             ELSE <<>>)

\* Engine::resolve_process_image: the if-let on the guarded lookup ends
\* before the image query; the insert locks again
resolve_process_image_locks(cache, pid, t) ==
    IF pid = 0 \/ pid = 4
    THEN <<>>
    ELSE Locked("proc_cache")
         \o (IF resolve_process_image(cache, pid, None, t).lookup
             THEN <<Call("get_process_image_path")>> \o Locked("proc_cache")
             ELSE <<>>)

\* the body of the loop of preflight_trusted_handles for one pid
preflight_pid_locks(c, entry) ==
    <<Call("get_process_image_path")>>
    \o (IF ~IsSome(entry.image)
        THEN <<>>
        ELSE trust_for_path_locks
             \o (IF trust_for_path(c, entry.verdict).is_trusted
                 THEN Locked("proc_cache")
                 ELSE <<>>))

\* the loop of preflight_trusted_handles over the pids not yet visited
RECURSIVE preflight_loop_locks(_, _, _)
preflight_loop_locks(c, tb, pids) ==
    IF pids = {}
    THEN <<>>
    ELSE LET pid == CHOOSE x \in pids : \A y \in pids : x <= y
         IN  preflight_pid_locks(c, tb[pid])
             \o preflight_loop_locks(c, tb, pids \ {pid})

\* Engine::preflight_trusted_handles
preflight_locks(c, enum, handles) ==
    <<Call("enum_process_ids")>>
    \o (IF ~IsSome(enum)
        THEN <<>>
        ELSE LET tb == Unwrap(enum)
                 trusted_pids == {pid \in DOMAIN tb :
                                     /\ IsSome(tb[pid].image)
                                     /\ trust_for_path(c, tb[pid].verdict).is_trusted}
             IN  preflight_loop_locks(c, tb, DOMAIN tb)
                 \o (IF trusted_pids = {}
                     THEN <<>>
                     ELSE <<Call("collect_file_objects_for_pids")>>
                          \o (IF collect_file_objects_for_pids(trusted_pids, handles)
                                    = EmptyMap
                              THEN <<>>
                              ELSE Locked("whitelisted_file_objects"))))

\* faulty variant: the guard of the owner lookup lives until the alert is made
file_access_locks_owner_held(c, e, rec, os, t) ==
    LET file_object == RecFileObject(rec)
        rp == resolve_process_image(e.proc_cache, rec.pid, os, t)
        tr == is_pid_trusted(c, rp.cache, rec.pid, rp.image, t)
    IN  resolve_process_image_locks(e.proc_cache, rec.pid, t)
        \o Locked("proc_cache")
        \o (IF tr
            THEN (IF file_object = 0 \/ rec.pid = 0 \/ rec.pid = 4
                  THEN <<>>
                  ELSE Locked("whitelisted_file_objects"))
            ELSE (IF file_object # 0
                  THEN <<Acquire("whitelisted_file_objects")>>
                       \o Locked("last_alert")
                       \o <<Release("whitelisted_file_objects")>>
                  ELSE Locked("last_alert")))

\* the decision tree of an access record, from resolve_process_image on
file_access_locks(c, e, rec, os, t) ==
    LET file_object == RecFileObject(rec)
        rp == resolve_process_image(e.proc_cache, rec.pid, os, t)
        tr == is_pid_trusted(c, rp.cache, rec.pid, rp.image, t)
    IN  resolve_process_image_locks(e.proc_cache, rec.pid, t)
        \o Locked("proc_cache")
        \o (IF tr
            THEN (IF file_object = 0 \/ rec.pid = 0 \/ rec.pid = 4
                  THEN <<>>
                  ELSE Locked("whitelisted_file_objects"))
            ELSE (IF file_object # 0
                  THEN Locked("whitelisted_file_objects")
                  ELSE <<>>)
                 \o Locked("last_alert"))

\* file_cb of run_trace
file_cb_locks(c, e, rec, os, t) ==
    LET event_id == rec.event_id
        file_key == RecFileKey(rec)
        target == resolve_target(e.filekey_cache, rec.FileName, file_key)
    IN  IF event_id # 12 /\ event_id # 0 /\ event_id # 65 /\ event_id # 66
        THEN <<>>
        ELSE IF event_id = 0
        THEN (IF file_key = 0 \/ ~IsSome(rec.FileName)
              THEN <<>>
              ELSE Locked("filekey_cache"))
        ELSE IF event_id = 65 \/ event_id = 66
        THEN (IF file_key # 0 THEN Locked("filekey_cache") ELSE <<>>)
        ELSE (IF ~IsSome(rec.FileName) /\ file_key # 0
              THEN Locked("filekey_cache")
              ELSE <<>>)
             \o (IF ~IsSome(target)
                 THEN <<>>
                 ELSE IF ~IsSome(match_protected_rule(c, Unwrap(target)))
                 THEN <<>>
                 ELSE file_access_locks(c, e, rec, os, t))

----------------------------------------------------------------------------
(* Actions *)

\* Engine::new with a loaded configuration, before main calls
\* preflight_trusted_handles
InitWith(configs, budget) ==
    /\ cfg \in configs
    /\ proc_cache = EmptyMap
    /\ filekey_cache = EmptyMap
    /\ last_alert = EmptyMap
    /\ whitelisted_file_objects = EmptyMap
    /\ alert_tx = <<>>
    /\ alert_rx = [open |-> TRUE, received |-> <<>>]
    /\ session = "idle"
    /\ now = 0
    /\ pc = "boot"
    /\ steps = budget
    /\ last = Op("new")
    /\ observed = {}
    /\ send_failed = FALSE
    /\ etw = [log |-> <<>>, taken |-> {}]
    /\ inflight = None

\* faulty variant: the session is started first and the engine is seeded by
\* a later step, while records are already being delivered
Preflight_after_start(enum, handles) ==
    /\ pc = "boot"
    /\ IF session = "idle"
       THEN /\ session' = "running"
            /\ last' = Op("start_etw")
            /\ UNCHANGED <<proc_cache, whitelisted_file_objects, pc>>
       ELSE /\ LET r == preflight_trusted_handles(cfg, proc_cache,
                                                  whitelisted_file_objects,
                                                  enum, handles, now)
               IN  /\ proc_cache' = r.cache
                   /\ whitelisted_file_objects' = r.wl
            /\ pc' = "running"
            /\ last' = [Op("preflight") EXCEPT !.enum = enum, !.handles = handles,
                                               !.locks = preflight_locks(cfg, enum, handles)]
            /\ UNCHANGED session
    /\ UNCHANGED <<cfg, etw, inflight, filekey_cache, last_alert, alert_tx, alert_rx, now, steps,
                   observed, send_failed>>

\* main: let _ = engine.preflight_trusted_handles(); then start_etw
Preflight(enum, handles) ==
    /\ pc = "boot"
    /\ LET r == preflight_trusted_handles(cfg, proc_cache, whitelisted_file_objects,
                                          enum, handles, now)
       IN  /\ proc_cache' = r.cache
           /\ whitelisted_file_objects' = r.wl
    /\ pc' = "running"
    /\ session' = "running"
    /\ last' = [Op("preflight") EXCEPT !.enum = enum, !.handles = handles,
                                       !.locks = preflight_locks(cfg, enum, handles)]
    /\ UNCHANGED <<cfg, etw, inflight, filekey_cache, last_alert, alert_tx, alert_rx, now, steps,
                   observed, send_failed>>

\* process_cb of run_trace, event_record_callback for the kernel-process
\* provider: a record without ImageName is dropped
ProcessCb(pid, image_name, verdict) ==
    /\ session = "running"
    /\ steps > 0
    /\ steps' = steps - 1
    /\ IF IsSome(image_name)
       THEN /\ proc_cache' = on_process_start(cfg, proc_cache, pid,
                                              Unwrap(image_name), verdict, now)
            /\ last' = [Op("process_start") EXCEPT !.pid = Some(pid),
                                                    !.proc_path = image_name,
                                                    !.verdict = Some(verdict),
                                                    !.prev = MapGet(proc_cache, pid),
                                                    !.locks = on_process_start_locks(
                                                                 Unwrap(image_name))]
       ELSE /\ proc_cache' = proc_cache
            /\ last' = Op("ignored")
    /\ UNCHANGED <<cfg, etw, inflight, filekey_cache, last_alert, whitelisted_file_objects,
                   alert_tx, alert_rx, session, now, pc, observed, send_failed>>

\* file_cb of run_trace on one record, handled to the end
HandleFileRecord(rec, os) ==
    /\ session = "running"
    /\ steps > 0
    /\ steps' = steps - 1
    /\ LET r == file_cb(cfg, Engine, rec, os, now)
       IN  /\ proc_cache' = r.e.proc_cache
           /\ filekey_cache' = r.e.filekey_cache
           /\ last_alert' = r.e.last_alert
           /\ whitelisted_file_objects' = r.e.wl
           /\ alert_tx' = r.e.alert_tx
           /\ last' = [r.last EXCEPT
                          !.os = IF r.last.lookup = Some(TRUE) THEN Some(os) ELSE None,
                          !.locks = file_cb_locks(cfg, Engine, rec, os, now)]
           /\ observed' =
                 IF /\ r.last.op = "file_access"
                    /\ r.last.trusted = Some(TRUE)
                    /\ r.last.file_object # Some(0)
                 THEN observed \cup {<<Unwrap(r.last.file_object), rec.pid>>}
                 ELSE observed
           /\ send_failed' = (send_failed \/ r.last.send = Some(FALSE))
    /\ UNCHANGED <<cfg, inflight, alert_rx, session, now, pc>>

\* one record of the kernel-file provider, delivered as it is logged
FileCb(rec, os) == HandleFileRecord(rec, os) /\ UNCHANGED etw

\* time passes between two records
Tick(d) ==
    /\ session = "running"
    /\ steps > 0
    /\ steps' = steps - 1
    /\ now' = now + d
    /\ last' = Op("tick")
    /\ UNCHANGED <<cfg, etw, inflight, proc_cache, filekey_cache, last_alert,
                   whitelisted_file_objects, alert_tx, alert_rx, session, pc,
                   observed, send_failed>>

----------------------------------------------------------------------------
(* Spec: trust and file objects, accesses with an inline name *)

TrustPaths == {PATH_LOGIN, PATH_OLD}
TrustRecords ==
    [event_id : {12}, pid : Pids, FileKey : {None},
     FileObject : {None, Some(43981)}, FileName : {Some(n) : n \in TrustPaths}]
\* the ImageName property of a process record, None when it is missing
TrustImageNames == {None, Some(IMG_SIGNED)}
TrustVerdicts == {v \in Verdicts : v.signer_subject # Some(SUBJ_EVIL)}
TrustOsImages == OsImages \ {Some(IMG_ATTACKER)}
TrustEnums == {e \in EnumResults : e # Some(EmptyMap)}
TrustDeltas == {10500}

Init == InitWith(Configs, TrustSteps)

Next ==
    \/ \E enum \in TrustEnums, handles \in HandleTables : Preflight(enum, handles)
    \/ \E pid \in Pids, image_name \in TrustImageNames, verdict \in TrustVerdicts :
           ProcessCb(pid, image_name, verdict)
    \/ \E rec \in TrustRecords, os \in TrustOsImages : FileCb(rec, os)
    \/ \E d \in TrustDeltas : Tick(d)

Spec == Init /\ [][Next]_vars

----------------------------------------------------------------------------
(* Properties of the decision tree, checked under Spec *)

\* the step just taken handled an access record down to the trust check
AccessStep == last'.op = "file_access" /\ IsSome(last'.trusted)

\* the alert the step just taken put on the channel, if any
Sent == alert_tx' # alert_tx
NewestAlert == alert_tx'[Len(alert_tx')]

\* owners of a file object in the registry (empty when it is absent)
Owners(wl, f) == IF f \in DOMAIN wl THEN wl[f] ELSE {}

\* C1: an access to a protected target by a pid that is_pid_trusted accepts
\* puts no alert on the channel and leaves last_alert as it was.
C1_TrustedAccessIsSilent ==
    [][(AccessStep /\ last'.trusted = Some(TRUE))
          => (alert_tx' = alert_tx /\ last_alert' = last_alert)]_vars

\* a trusted access was handled while alerts of other pids were on record
C1_Witness ==
    /\ last.op = "file_access"
    /\ last.trusted = Some(TRUE)
    /\ IsSome(last.rule)
    /\ alert_tx # <<>>
    /\ last_alert # EmptyMap

C5_AlertKind ==
    [][(last'.op = "file_access" /\ Sent)
          => LET f == Unwrap(last'.file_object)
             IN  NewestAlert.kind =
                    IF f # 0 /\ Owners(whitelisted_file_objects, f) # {}
                    THEN KIND_SUSPICIOUS
                    ELSE KIND_PROTECTED]_vars

\* both kinds were sent, the suspicious one by the last access
C5_Witness ==
    /\ \E i \in DOMAIN alert_tx : alert_tx[i].kind = KIND_PROTECTED
    /\ last.op = "file_access"
    /\ last.kind = Some(KIND_SUSPICIOUS)
    /\ last.file_object # Some(0)
    /\ alert_tx[Len(alert_tx)].kind = KIND_SUSPICIOUS
    /\ alert_tx[Len(alert_tx)].pid = Unwrap(last.pid)
    /\ alert_tx[Len(alert_tx)].target = Unwrap(last.target)

----------------------------------------------------------------------------
(* SpecDedup: the suppression window, accesses of untrusted pids over time *)

DedupConfigs == {ConfigLoad(RAW_SIGNERS)}
DedupRecords ==
    [event_id : {12}, pid : {4, 300}, FileKey : {None}, FileObject : {None},
     FileName : {Some(PATH_LOGIN), Some(PATH_OLD)}]
DedupOsImages == OsImages \ {Some(IMG_EXPLORER)}
\* inside the window, up to its end, and the age at which entries are evicted
DedupDeltas == {500, 1000, 12000}

InitDedup == InitWith(DedupConfigs, DedupSteps)

NextDedup ==
    \/ \E enum \in {None}, handles \in {None} : Preflight(enum, handles)
    \/ \E rec \in DedupRecords, os \in DedupOsImages : FileCb(rec, os)
    \/ \E d \in DedupDeltas : Tick(d)

SpecDedup == InitDedup /\ [][NextDedup]_vars

\* alerts i and j of the channel are for the same (pid, target)
SamePair(i, j) ==
    alert_tx[i].pid = alert_tx[j].pid /\ alert_tx[i].target = alert_tx[j].target

\* C2: any two alerts sent for the same (pid, target) are at least
\* suppress_ms apart.
C2_OneAlertPerWindow ==
    \A i, j \in DOMAIN alert_tx :
        (i < j /\ SamePair(i, j))
            => alert_tx[j].at - alert_tx[i].at >= cfg.general.suppress_ms

\* two alerts of one pair were sent exactly suppress_ms apart, the map having
\* been through an eviction or not
C2_Witness ==
    \E i, j \in DOMAIN alert_tx :
        /\ i < j
        /\ SamePair(i, j)
        /\ alert_tx[j].at - alert_tx[i].at = cfg.general.suppress_ms

\* an alert for (pid, target) less than suppress_ms before instant t
RecentAlert(tx, pid, target, t) ==
    \E i \in DOMAIN tx :
        /\ tx[i].pid = pid
        /\ tx[i].target = target
        /\ t - tx[i].at < cfg.general.suppress_ms

\* C3: an access (event id 12) by an untrusted pid to a target matching a rule
\* sends exactly one alert for (pid, target), unless an alert for that pair was
\* sent less than suppress_ms earlier, in which case it sends none.
C3_UntrustedAccessAlerts ==
    [][(AccessStep /\ last'.event_id = Some(12) /\ last'.trusted = Some(FALSE))
          => LET p == Unwrap(last'.pid)
                 tg == Unwrap(last'.target)
             IN  IF RecentAlert(alert_tx, p, tg, now')
                 THEN alert_tx' = alert_tx
                 ELSE /\ Len(alert_tx') = Len(alert_tx) + 1
                      /\ SubSeq(alert_tx', 1, Len(alert_tx)) = alert_tx
                      /\ NewestAlert.pid = p
                      /\ NewestAlert.target = tg
                      /\ NewestAlert.at = now']_vars

\* a pid whose image lookup failed was alerted again, suppress_ms or more
\* after its previous alert for the same target
C3_Witness ==
    /\ last.op = "file_access"
    /\ last.trusted = Some(FALSE)
    /\ last.proc_path = Some(STR_UNKNOWN)
    /\ Len(alert_tx) >= 2
    /\ alert_tx[Len(alert_tx)].at = now
    /\ alert_tx[Len(alert_tx)].pid = Unwrap(last.pid)
    /\ alert_tx[Len(alert_tx)].process = STR_UNKNOWN
    /\ \E i \in 1..(Len(alert_tx) - 1) : SamePair(i, Len(alert_tx))

----------------------------------------------------------------------------
(* SpecKeys: the File-Key Resolver, binds, closes and accesses by key *)

KeyConfigs == {ConfigLoad(RAW_SIGNERS)}
\* a record without FileKey takes FileObject as its key; one without either
\* has key 0; an inline name may be the empty string
KeyRecords ==
    [event_id : EventIds, pid : {300}, FileKey : {None, Some(16)},
     FileObject : {None, Some(43981)},
     FileName : {None, Some(PATH_LOGIN), Some(PATH_TMP), Some(<<>>)}]
KeyOsImages == {Some(IMG_ATTACKER)}

InitKeys == InitWith(KeyConfigs, KeySteps)

NextKeys ==
    \/ \E enum \in {None}, handles \in {None} : Preflight(enum, handles)
    \/ \E rec \in KeyRecords, os \in KeyOsImages : FileCb(rec, os)

SpecKeys == InitKeys /\ [][NextKeys]_vars

\* keys bound before or after the step
BoundKeys == DOMAIN filekey_cache \cup DOMAIN filekey_cache'

\* C7: a close of key k leaves k unbound, changes nothing when k was not
\* bound, and leaves every other binding as it was; a key that is unbound
\* becomes bound only by a bind record for that key.
C7_ClearedKeyStaysUnbound ==
    [][/\ last'.op = "clear_file_key"
           => LET k == Unwrap(last'.file_key)
              IN  /\ resolve_file_key(filekey_cache', k) = None
                  /\ (k \notin DOMAIN filekey_cache => filekey_cache' = filekey_cache)
                  /\ \A o \in BoundKeys \ {k} :
                         resolve_file_key(filekey_cache', o) = resolve_file_key(filekey_cache, o)
       /\ \A k \in BoundKeys :
              (k \notin DOMAIN filekey_cache /\ k \in DOMAIN filekey_cache')
                  => (last'.op = "file_name_mapping" /\ last'.file_key = Some(k))]_vars

\* a bound key was closed while another key stays bound
C7_Witness ==
    /\ last.op = "clear_file_key"
    /\ IsSome(last.prev)
    /\ Unwrap(last.file_key) \notin DOMAIN filekey_cache
    /\ DOMAIN filekey_cache # {}

\* C8: a bind of key k to name n makes k resolve to n, whatever k was bound
\* to, and leaves every other binding as it was; the binding of k then stays
\* n until a bind or a close of k.
C8_LastBindWins ==
    [][/\ last'.op = "file_name_mapping"
           => LET k == Unwrap(last'.file_key)
              IN  /\ resolve_file_key(filekey_cache', k) = last'.file_name
                  /\ \A o \in BoundKeys \ {k} :
                         resolve_file_key(filekey_cache', o) = resolve_file_key(filekey_cache, o)
       /\ \A k \in DOMAIN filekey_cache :
              resolve_file_key(filekey_cache', k) # resolve_file_key(filekey_cache, k)
                  => (/\ last'.op \in {"file_name_mapping", "clear_file_key"}
                      /\ last'.file_key = Some(k))]_vars

\* a key bound to one name was bound again to another, with a different key
\* bound as well
C8_Witness ==
    /\ last.op = "file_name_mapping"
    /\ IsSome(last.prev)
    /\ last.prev # last.file_name
    /\ resolve_file_key(filekey_cache, Unwrap(last.file_key)) = last.file_name
    /\ DOMAIN filekey_cache \ {Unwrap(last.file_key)} # {}

\* the step just taken handled an access record (event id 12)
KeyAccessStep == last'.op = "file_access"

\* C9: the target of an access is its inline name when it has one, else the
\* binding of its file_key when that is not 0 and bound; with no target the
\* access sends no alert and changes neither proc_cache, the registry nor
\* last_alert; an alert that is sent carries the target.
C9_TargetResolution ==
    [][KeyAccessStep
          => LET k == Unwrap(last'.file_key)
                 unbound == k = 0 \/ k \notin DOMAIN filekey_cache
             IN  /\ IsSome(last'.file_name) => last'.target = last'.file_name
                 /\ (~IsSome(last'.file_name) /\ ~unbound)
                        => last'.target = Some(filekey_cache[k])
                 /\ (~IsSome(last'.file_name) /\ unbound)
                        => /\ last'.target = None
                           /\ UNCHANGED <<proc_cache, whitelisted_file_objects,
                                          last_alert, alert_tx, filekey_cache>>
                 /\ Sent => Some(NewestAlert.target) = last'.target]_vars

\* an access without inline name on an unbound, non-zero key was dropped
\* after another access had been alerted and another key is bound
C9_Witness ==
    /\ last.op = "file_access"
    /\ last.file_name = None
    /\ last.file_key # Some(0)
    /\ last.target = None
    /\ DOMAIN filekey_cache # {}
    /\ alert_tx # <<>>
    /\ DOMAIN proc_cache # {}

----------------------------------------------------------------------------
(* SpecMatch: match_protected_rule over rule lists and paths *)

MaxRules == 3

RulePool == {RULE_SEP, RULE_ANY, RULE_TMP, RULE_EMPTY}
RuleLists == UNION {[1..n -> RulePool] : n \in 0..MaxRules}
\* values of the legacy key watch.protected_substrings
LegacyLists == {<<>>, << <<"L", "D">> >>, << <<"D">>, <<"L", "d">> >>}

MatchRawConfigs ==
    {[RAW_SIGNERS EXCEPT !.watch = [protected |-> rules, protected_substrings |-> subs]] :
        rules \in RuleLists, subs \in LegacyLists}
MatchConfigs == {ConfigLoad(raw) : raw \in MatchRawConfigs}
MatchPaths == {PATH_LOGIN, PATH_OLD, PATH_TMP, <<>>}

InitMatch == InitWith(MatchConfigs, 0)

\* a call of Engine::match_protected_rule
MatchProtectedRule(path) ==
    /\ last' = [Op("match_protected_rule") EXCEPT
                   !.target = Some(path),
                   !.rule = match_protected_rule(cfg, path)]
    /\ UNCHANGED <<cfg, etw, inflight, proc_cache, filekey_cache, last_alert,
                   whitelisted_file_objects, alert_tx, alert_rx, session, now,
                   pc, steps, observed, send_failed>>

NextMatch == \E path \in MatchPaths : MatchProtectedRule(path)

SpecMatch == InitMatch /\ [][NextMatch]_vars

\* indices of the rules whose lower-cased substring occurs in the lower-cased
\* path
Hits(path) ==
    {i \in DOMAIN cfg.watch.protected :
        contains(to_lowercase(path), to_lowercase(cfg.watch.protected[i].substring))}

\* C10: match_protected_rule returns the name and substring of the rule of
\* least index among those whose lower-cased substring occurs in the
\* lower-cased path, and none when there is no such rule.
C10_FirstMatchingRuleWins ==
    last.op = "match_protected_rule"
        => LET hits == Hits(Unwrap(last.target))
           IN  IF hits = {}
               THEN last.rule = None
               ELSE \E i \in hits :
                        /\ \A j \in hits : i <= j
                        /\ last.rule = Some(<<cfg.watch.protected[i].name,
                                              cfg.watch.protected[i].substring>>)

\* a path in upper case matched two rules of different names, neither of
\* them the first of the list
C10_Witness ==
    /\ last.op = "match_protected_rule"
    /\ last.target = Some(PATH_LOGIN)
    /\ 1 \notin Hits(PATH_LOGIN)
    /\ \E i, j \in Hits(PATH_LOGIN) :
           /\ i < j
           /\ cfg.watch.protected[i].name # cfg.watch.protected[j].name
    /\ IsSome(last.rule)

----------------------------------------------------------------------------
(* SpecTtl: the ages of ProcMeta records, up to and past the 10 s and 60 s *)
(* limits, for a pid that resolve_process_image looks up and for pid 4     *)

TtlPids == {4, 200}
TtlRecords ==
    [event_id : {12}, pid : TtlPids, FileKey : {None}, FileObject : {None},
     FileName : {Some(PATH_LOGIN)}]
TtlImageNames == {Some(IMG_SIGNED)}
TtlVerdicts == {v \in Verdicts : v.signer_subject # Some(SUBJ_EVIL)}
TtlOsImages == {None, Some(IMG_EXPLORER)}
\* to the limit of the image ttl, to the limit of the trust ttl, and past
TtlDeltas == {1, IMAGE_TTL_MS, TRUST_TTL_MS}

InitTtl == InitWith(Configs, TtlSteps)

NextTtl ==
    \/ \E enum \in {None}, handles \in {None} : Preflight(enum, handles)
    \/ \E pid \in TtlPids, image_name \in TtlImageNames, verdict \in TtlVerdicts :
           ProcessCb(pid, image_name, verdict)
    \/ \E rec \in TtlRecords, os \in TtlOsImages : FileCb(rec, os)
    \/ \E d \in TtlDeltas : Tick(d)

SpecTtl == InitTtl /\ [][NextTtl]_vars

\* a ProcMeta of the pid with is_trusted_signed, at most 60 s old at instant t
FreshTrustedMeta(cache, pid, t) ==
    /\ pid \in DOMAIN cache
    /\ cache[pid].is_trusted_signed
    /\ t - cache[pid].ts <= 60000

\* the lower-cased image ends with a suffix of process_name_allow
AllowlistedImage(image) ==
    \E i \in DOMAIN cfg.allowlist.process_name_allow :
        ends_with(to_lowercase(image), to_lowercase(cfg.allowlist.process_name_allow[i]))

\* C11: the trust decision of an access is true exactly when the pid has a
\* ProcMeta with is_trusted_signed that is at most 60 s old, or the lower-cased
\* resolved image ends with a process_name_allow suffix; in the second case
\* the access sends no alert, whatever the signature verdict on record.
C11_TrustDecision ==
    [][AccessStep
          => LET p == Unwrap(last'.pid)
                 img == Unwrap(last'.proc_path)
             IN  /\ last'.trusted =
                       Some(FreshTrustedMeta(proc_cache', p, now') \/ AllowlistedImage(img))
                 /\ AllowlistedImage(img) => alert_tx' = alert_tx]_vars

\* a pid was trusted by a ProcMeta exactly 60 s old, its image not being
\* allowlisted by name
C11_Witness ==
    /\ last.op = "file_access"
    /\ last.trusted = Some(TRUE)
    /\ ~AllowlistedImage(Unwrap(last.proc_path))
    /\ now - proc_cache[Unwrap(last.pid)].ts = 60000

----------------------------------------------------------------------------
(* SpecProc: the ProcMeta map under process records, the preflight and     *)
(* accesses, for the SYSTEM pids and an ordinary pid                       *)

ProcPids == {0, 4, 200}
\* a file that is not an .exe
IMG_DLL == <<"m", ".", "d", "l", "l">>
ProcImageNames == {Some(IMG_SIGNED), Some(IMG_ATTACKER), Some(IMG_DLL)}
\* a valid signature whose subject cannot be read is a verdict as well
ProcVerdicts == Verdicts \cup {[is_signed |-> TRUE, signer_subject |-> None]}
ProcEnums == {e \in EnumResults : e # Some(EmptyMap)}
ProcRecords ==
    [event_id : {12}, pid : ProcPids, FileKey : {None}, FileObject : {None},
     FileName : {Some(PATH_LOGIN)}]
ProcOsImages == {None, Some(IMG_EXPLORER)}
ProcDeltas == {IMAGE_TTL_MS + 1}

InitProc == InitWith(Configs, ProcSteps)

NextProc ==
    \/ \E enum \in ProcEnums, handles \in {None} : Preflight(enum, handles)
    \/ \E pid \in ProcPids, image_name \in ProcImageNames, verdict \in ProcVerdicts :
           ProcessCb(pid, image_name, verdict)
    \/ \E rec \in ProcRecords, os \in ProcOsImages : FileCb(rec, os)
    \/ \E d \in ProcDeltas : Tick(d)

SpecProc == InitProc /\ [][NextProc]_vars

\* the pids whose ProcMeta the step wrote or changed
Written ==
    {pid \in DOMAIN proc_cache' :
        pid \notin DOMAIN proc_cache \/ proc_cache'[pid] # proc_cache[pid]}

\* the verdict says signed, and the signer allowlist is empty or the
\* lower-cased subject (empty when there is none) contains one of its needles
VerdictTrusted(v) ==
    /\ v.is_signed
    /\ \/ Len(cfg.allowlist.signer_subject_allow) = 0
       \/ \E i \in DOMAIN cfg.allowlist.signer_subject_allow :
              contains(to_lowercase(IF v.signer_subject = None
                                    THEN <<>> ELSE v.signer_subject[1]),
                       to_lowercase(cfg.allowlist.signer_subject_allow[i]))

\* C12: a ProcMeta with is_trusted_signed is written only by a process record
\* or by the preflight, from a verdict of the signature check that says signed
\* and whose subject passes the signer allowlist (or the allowlist is empty);
\* the ProcMeta keeps that verdict's subject.
C12_TrustedMetaIsSigned ==
    [][\A pid \in Written :
          proc_cache'[pid].is_trusted_signed
             => /\ last'.op \in {"process_start", "preflight"}
                /\ LET v == IF last'.op = "process_start"
                            THEN Unwrap(last'.verdict)
                            ELSE Unwrap(last'.enum)[pid].verdict
                   IN  /\ VerdictTrusted(v)
                       /\ proc_cache'[pid].signer_subject = v.signer_subject]_vars

\* a trusted ProcMeta came from a signed verdict without subject, beside a
\* ProcMeta that an unsigned verdict left untrusted
C12_Witness ==
    /\ last.op = "process_start"
    /\ last.verdict = Some([is_signed |-> TRUE, signer_subject |-> None])
    /\ Unwrap(last.pid) \in DOMAIN proc_cache
    /\ proc_cache[Unwrap(last.pid)].is_trusted_signed
    /\ \E q \in DOMAIN proc_cache : ~proc_cache[q].is_trusted_signed

\* C13: for pid 0 and pid 4 resolve_process_image returns "SYSTEM", does not
\* ask the operating system for the image, and leaves proc_cache as it was,
\* whatever proc_cache holds for the pid.
C13_SystemPidImage ==
    [][(AccessStep /\ last'.pid \in {Some(0), Some(4)})
          => /\ last'.proc_path = Some(<<"S", "Y", "S", "T", "E", "M">>)
             /\ last'.lookup = Some(FALSE)
             /\ proc_cache' = proc_cache]_vars

\* pid 0 or 4 was resolved while proc_cache held a record of it with another
\* image, older than the 10 s after which other pids are looked up again
C13_Witness ==
    /\ last.op = "file_access"
    /\ last.pid \in {Some(0), Some(4)}
    /\ last.proc_path = Some(STR_SYSTEM)
    /\ Unwrap(last.pid) \in DOMAIN proc_cache
    /\ proc_cache[Unwrap(last.pid)].image # STR_SYSTEM
    /\ now - proc_cache[Unwrap(last.pid)].ts > 10000

\* C14: no step leaves a ProcMeta for pid 0 or pid 4 in proc_cache, and an
\* access of pid 0 or 4 is trusted only when a process_name_allow suffix
\* matches "system".
C14_NoSystemProcMeta ==
    [][/\ DOMAIN proc_cache' \cap {0, 4} = {}
       /\ (AccessStep /\ last'.pid \in {Some(0), Some(4)} /\ last'.trusted = Some(TRUE))
             => AllowlistedImage(STR_SYSTEM)]_vars

\* the step applies a process record to a pid right after another process
\* record of that pid, which left a ProcMeta
SecondProcessStart ==
    /\ last.op = "process_start"
    /\ last'.op = "process_start"
    /\ last'.pid = last.pid
    /\ Unwrap(last.pid) \in DOMAIN proc_cache

\* image, is_trusted and signer_subject that the process record of the step
\* stands for
AppliedImage == Unwrap(last'.proc_path)
AppliedTrusted == VerdictTrusted(Unwrap(last'.verdict))
AppliedSubject ==
    IF Unwrap(last'.verdict).is_signed THEN Unwrap(last'.verdict).signer_subject ELSE None

\* the ProcMeta of the pid after the step is that of the record applied
MetaIsApplied ==
    LET pid == Unwrap(last'.pid)
    IN  /\ pid \in DOMAIN proc_cache'
        /\ proc_cache'[pid].image = AppliedImage
        /\ proc_cache'[pid].is_trusted_signed = AppliedTrusted
        /\ proc_cache'[pid].signer_subject = AppliedSubject

\* C15 as claimed: the second of two process records of a pid always leaves
\* the ProcMeta of the pid equal to what the second stands for.
C15_SecondStartOverwrites ==
    [][SecondProcessStart => MetaIsApplied]_vars

\* C15 amended: the second of two process records of a pid overwrites image,
\* is_trusted and signer_subject when its image ends with ".exe" in any case,
\* and leaves proc_cache as it was otherwise; a record equal to the first
\* (same image, same verdict) changes none of the three.
C15_SecondExeStartOverwrites ==
    [][SecondProcessStart
          => LET pid == Unwrap(last'.pid)
             IN  /\ IF ends_with(to_lowercase(AppliedImage), <<".", "e", "x", "e">>)
                    THEN MetaIsApplied
                    ELSE proc_cache' = proc_cache
                 /\ (last'.proc_path = last.proc_path /\ last'.verdict = last.verdict)
                       => /\ proc_cache'[pid].image = proc_cache[pid].image
                          /\ proc_cache'[pid].is_trusted_signed
                                = proc_cache[pid].is_trusted_signed
                          /\ proc_cache'[pid].signer_subject
                                = proc_cache[pid].signer_subject]_vars

\* a trusted ProcMeta with a subject was overwritten by a process record of
\* another image that is not trusted and has no subject
C15_Witness ==
    /\ last.op = "process_start"
    /\ IsSome(last.prev)
    /\ Unwrap(last.prev).is_trusted_signed
    /\ IsSome(Unwrap(last.prev).signer_subject)
    /\ Unwrap(last.prev).image # Unwrap(last.proc_path)
    /\ proc_cache[Unwrap(last.pid)].image = Unwrap(last.proc_path)
    /\ ~proc_cache[Unwrap(last.pid)].is_trusted_signed
    /\ proc_cache[Unwrap(last.pid)].signer_subject = None

----------------------------------------------------------------------------
(* SpecSink: the alert channel between the engine and the consumer loop of *)
(* main, with the outcomes of the log write and the end of the session     *)

\* the alerts sent on the channel that recv has not returned yet
Queue == SubSeq(alert_tx, Len(alert_rx.received) + 1, Len(alert_tx))

\* the live Senders of the channel: main's alert_tx, and the clone in the
\* Engine, which main's Arc<Engine> keeps alive; both live until main returns
Senders == IF pc \in {"boot", "running"} THEN {"main", "engine"} ELSE {}

\* Receiver::recv: the oldest queued alert; an error once the queue is empty
\* and every Sender is gone; it blocks otherwise
CanRecv == Queue # <<>> \/ Senders = {}
recv == IF Queue # <<>> THEN Some(Head(Queue)) ELSE None

\* AlertLogger::write: whether the line reached the log file
WriteResults == {"ok", "err"}

\* one turn of the consumer loop of main: recv, then logger.write(&alert)?;
\* when main returns, _session is dropped (the trace is stopped and the
\* worker joined) and then alert_rx
Consume(write) ==
    /\ pc = "running"
    /\ CanRecv
    /\ LET a == recv
           left == ~IsSome(a) \/ write = "err"
       IN  /\ pc' = IF ~IsSome(a) THEN "done"
                    ELSE IF write = "err" THEN "failed" ELSE "running"
           /\ alert_rx' = [open |-> ~left,
                           received |-> IF IsSome(a)
                                        THEN Append(alert_rx.received, Unwrap(a))
                                        ELSE alert_rx.received]
           /\ session' = IF left THEN "ended" ELSE session
    /\ last' = Op("consume")
    /\ UNCHANGED <<cfg, etw, inflight, proc_cache, filekey_cache, last_alert,
                   whitelisted_file_objects, alert_tx, now, steps, observed, send_failed>>

\* the trace stops delivering records while main is in its loop: run_trace
\* failed to start, or the trace was stopped by name from outside (start_etw
\* of another instance does so)
SessionEnd ==
    /\ session = "running"
    /\ session' = "ended"
    /\ last' = Op("session_end")
    /\ UNCHANGED <<cfg, etw, inflight, proc_cache, filekey_cache, last_alert,
                   whitelisted_file_objects, alert_tx, alert_rx, now, pc, steps,
                   observed, send_failed>>

SinkConfigs == {ConfigLoad(RAW_SIGNERS)}
SinkRecords ==
    [event_id : {12}, pid : {200, 300}, FileKey : {None}, FileObject : {None},
     FileName : {Some(PATH_LOGIN), Some(PATH_TMP)}]
SinkOsImages == {None}
SinkDeltas == {1500}

InitSink == InitWith(SinkConfigs, SinkSteps)

NextSink ==
    \/ \E enum \in {None}, handles \in {None} : Preflight(enum, handles)
    \/ \E rec \in SinkRecords, os \in SinkOsImages : FileCb(rec, os)
    \/ \E d \in SinkDeltas : Tick(d)
    \/ \E write \in WriteResults : Consume(write)
    \/ SessionEnd

\* the consumer loop is a thread of its own: a turn that can be taken is taken
SpecSink ==
    InitSink /\ [][NextSink]_vars /\ WF_vars(\E write \in WriteResults : Consume(write))

\* C16: every alert that should_suppress let through is put on the channel
\* by the callback that raised it (the send returns at once), the consumer
\* loop receives the alerts in the order they were sent, and every alert on
\* the channel is eventually received.
C16_EveryAlertReceived ==
    /\ [][(last'.op = "file_access" /\ IsSome(last'.send))
            => /\ last'.send = Some(TRUE)
               /\ Len(alert_tx') = Len(alert_tx) + 1
               /\ SubSeq(alert_tx', 1, Len(alert_tx)) = alert_tx]_vars
    /\ [](/\ Len(alert_rx.received) <= Len(alert_tx)
          /\ alert_rx.received = SubSeq(alert_tx, 1, Len(alert_rx.received)))
    /\ \A i \in 1..SinkSteps :
           [](Len(alert_tx) >= i => <>(Len(alert_rx.received) >= i))

----------------------------------------------------------------------------
(* SpecSend: the engine while the Receiver of its channel goes away and    *)
(* records keep arriving                                                    *)

\* the holder of the Receiver drops it while the trace still delivers
\* records: main returns from its loop, and the records buffered by the
\* trace are handed to the callbacks, which hold the Arc<Engine>
DropReceiver ==
    /\ pc = "running"
    /\ alert_rx.open
    /\ alert_rx' = [alert_rx EXCEPT !.open = FALSE]
    /\ pc' = "failed"
    /\ last' = Op("drop_receiver")
    /\ UNCHANGED <<cfg, etw, inflight, proc_cache, filekey_cache, last_alert,
                   whitelisted_file_objects, alert_tx, session, now, steps,
                   observed, send_failed>>

SendConfigs == {ConfigLoad(RAW_SIGNERS)}
SendRecords ==
    [event_id : {0, 12}, pid : {200, 300}, FileKey : {Some(7)},
     FileObject : {None}, FileName : {None, Some(PATH_LOGIN)}]
SendImageNames == {Some(IMG_SIGNED)}
SendVerdicts == {v \in Verdicts : v.is_signed}
SendOsImages == {None}

InitSend == InitWith(SendConfigs, SendSteps)

NextSend ==
    \/ \E enum \in {None}, handles \in {None} : Preflight(enum, handles)
    \/ \E pid \in {200}, image_name \in SendImageNames, verdict \in SendVerdicts :
           ProcessCb(pid, image_name, verdict)
    \/ \E rec \in SendRecords, os \in SendOsImages : FileCb(rec, os)
    \/ DropReceiver

SpecSend == InitSend /\ [][NextSend]_vars

\* the four maps of the engine
EngineMaps == <<proc_cache, filekey_cache, last_alert, whitelisted_file_objects>>

\* C17: once a send on the alert channel has failed, no record handled later
\* changes a map of the engine or makes the engine send again.
C17_SendFailureIsTerminal ==
    [][send_failed => (EngineMaps' = EngineMaps /\ ~IsSome(last'.send))]_vars

----------------------------------------------------------------------------
(* Startup errors, under SpecProc *)

\* C19: when enum_process_ids fails inside preflight_trusted_handles, main
\* returns the error and the event session is not started.
C19_EnumFailureIsFatal ==
    [][(last'.op = "preflight" /\ ~IsSome(last'.enum))
          => (pc' = "failed" /\ session' # "running")]_vars

----------------------------------------------------------------------------
(* Mutex scopes, under SpecProc *)

\* the mutexes held when event i of a handler's trace happens
Held(trace, i) ==
    {m \in {"proc_cache", "filekey_cache", "last_alert", "whitelisted_file_objects"} :
        \E j \in 1..(i - 1) :
            /\ trace[j] = Acquire(m)
            /\ \A k \in (j + 1)..(i - 1) : trace[k] # Release(m)}

\* C20: whenever a handler makes an external call (signature verification,
\* handle-table snapshot, image query, process enumeration), it holds none of
\* the mutexes of the four maps.
C20_NoLockAcrossExternalCall ==
    \A i \in DOMAIN last.locks :
        last.locks[i].ev = "call" => Held(last.locks, i) = {}

\* an access by a pid without a fresh ProcMeta: the cache is locked for the
\* lookup and released, the image query is made, and the cache is locked
\* again for the insert
C20_Witness ==
    /\ last.op = "file_access"
    /\ last.lookup = Some(TRUE)
    /\ \E i, j, k \in DOMAIN last.locks :
          /\ i < j /\ j < k
          /\ last.locks[i] = Release("proc_cache")
          /\ last.locks[j] = Call("get_process_image_path")
          /\ last.locks[k] = Acquire("proc_cache")

----------------------------------------------------------------------------
(* The registry of whitelisted file objects, under Spec *)

\* C21: every file object that is a key of the registry has at least one
\* owner pid, whether the preflight or a trusted access created the entry.
C21_OwnerSetsNonEmpty ==
    \A obj \in DOMAIN whitelisted_file_objects :
        whitelisted_file_objects[obj] # {}

\* the object is owned by pid 200, and a trusted access by another pid has
\* just added that pid to the owners
C21_Witness ==
    /\ last.op = "file_access"
    /\ last.trusted = Some(TRUE)
    /\ 43981 \in DOMAIN whitelisted_file_objects
    /\ 200 \in whitelisted_file_objects[43981]
    /\ Unwrap(last.pid) # 200
    /\ Unwrap(last.pid) \in whitelisted_file_objects[43981]

----------------------------------------------------------------------------
(* The size of the dedup map, under SpecDedup *)

\* what a step removes from last_alert
Evicted == (DOMAIN last_alert) \ (DOMAIN last_alert')

\* C22: after every call of should_suppress the dedup map holds at most
\* LAST_ALERT_CAP entries, whatever the (pid, target) pairs of the accesses,
\* and an entry is removed only when it is at least 8 x suppress_ms old.
C22_DedupMapBounded ==
    /\ [](Cardinality(DOMAIN last_alert) <= LAST_ALERT_CAP)
    /\ [][\A k \in Evicted :
             now' - last_alert[k] >= cfg.general.suppress_ms * EVICT_FACTOR]_vars

\* the preflight's snapshot failed or held no file object of a pid the
\* preflight had found trusted
NoSnapshotEntries ==
    \/ ~IsSome(last'.handles)
    \/ ~\E e \in Unwrap(last'.handles) :
           e.UniqueProcessId \in DOMAIN proc_cache' /\ e.Object # 0

\* C23: when the handle snapshot fails or yields no entries, the preflight
\* leaves the registry empty and the session is started all the same; while
\* the registry is empty, an access by an untrusted pid to a protected target
\* is handed to Engine::alert with kind protected_resource_access, and the
\* alert it sends has that kind.
C23_DegradedWithoutSnapshot ==
    /\ [][(last'.op = "preflight" /\ NoSnapshotEntries)
            => /\ whitelisted_file_objects' = EmptyMap
               /\ session' = "running"]_vars
    /\ [][(/\ last'.op = "file_access"
           /\ last'.trusted = Some(FALSE)
           /\ whitelisted_file_objects = EmptyMap)
            => /\ last'.kind = Some(KIND_PROTECTED)
               /\ whitelisted_file_objects' = EmptyMap
               /\ Sent => NewestAlert.kind = KIND_PROTECTED]_vars

\* the registry is empty although a pid is trusted (its snapshot gave
\* nothing), and an untrusted access naming a file object has been reported
\* as protected_resource_access
C23_Witness ==
    /\ last.op = "file_access"
    /\ last.trusted = Some(FALSE)
    /\ last.file_object = Some(43981)
    /\ last.send = Some(TRUE)
    /\ alert_tx[Len(alert_tx)].kind = KIND_PROTECTED
    /\ whitelisted_file_objects = EmptyMap
    /\ \E pid \in DOMAIN proc_cache : proc_cache[pid].is_trusted_signed

----------------------------------------------------------------------------
(* The fields of an alert, under Spec *)

\* the first rule of the configuration whose substring occurs in the path
FirstHit(path) == CHOOSE i \in Hits(path) : \A j \in Hits(path) : i <= j

\* C24: an alert put on the channel carries the pid and the event id of the
\* access that raised it, the image resolve_process_image returned for the
\* pid, the target the access resolved to, and the display name of the first
\* rule of the configuration that matches the target.
C24_AlertFields ==
    [][(last'.op = "file_access" /\ Sent)
          => LET a == NewestAlert
                 pid == Unwrap(last'.pid)
             IN  /\ a.pid = pid
                 /\ a.event_id = Unwrap(last'.event_id)
                 /\ a.event_id = 12
                 /\ a.process = Unwrap(last'.proc_path)
                 /\ a.process = IF pid = 0 \/ pid = 4 THEN STR_SYSTEM
                                ELSE proc_cache'[pid].image
                 /\ a.target = IF IsSome(last'.file_name)
                               THEN Unwrap(last'.file_name)
                               ELSE filekey_cache[Unwrap(last'.file_key)]
                 /\ Hits(a.target) # {}
                 /\ a.data_name = cfg.watch.protected[FirstHit(a.target)].name]_vars

\* an alert for a target that two rules match, named after the first of them,
\* raised by a pid whose image the operating system gave
C24_Witness ==
    /\ last.op = "file_access"
    /\ last.send = Some(TRUE)
    /\ last.lookup = Some(TRUE)
    /\ Cardinality(Hits(alert_tx[Len(alert_tx)].target)) = 2
    /\ alert_tx[Len(alert_tx)].data_name = cfg.watch.protected[1].name
    /\ alert_tx[Len(alert_tx)].process = IMG_EXPLORER
    /\ alert_tx[Len(alert_tx)].pid = 300

----------------------------------------------------------------------------
(* The trust ttl across the image ttl, under SpecTtl *)

\* C25: an access to a protected target by a pid whose ProcMeta was recorded
\* as trusted at most 60 s before, and not rewritten by a process record
\* since, is found trusted and sends no alert, also when the ProcMeta is more
\* than 10 s old.
C25_TrustLastsSixtySeconds ==
    [][(/\ last'.op = "file_access"
        /\ IsSome(last'.rule)
        /\ FreshTrustedMeta(proc_cache, Unwrap(last'.pid), now))
          => (last'.trusted = Some(TRUE) /\ ~Sent)]_vars

\* C26: for a pid other than 0 and 4, resolve_process_image returns the image
\* of the pid's ProcMeta, asks nothing and writes nothing when that ProcMeta
\* is at most 10 s old; otherwise it asks the operating system, replaces the
\* ProcMeta by an untrusted one holding the answer ("unknown" when the query
\* failed), no signer and the present instant, and returns that image.
C26_ResolveProcessImage ==
    [][(AccessStep /\ Unwrap(last'.pid) \notin {0, 4})
          => LET pid == Unwrap(last'.pid)
                 img == Unwrap(last'.proc_path)
             IN  IF pid \in DOMAIN proc_cache /\ now - proc_cache[pid].ts <= 10000
                 THEN /\ last'.lookup = Some(FALSE)
                      /\ proc_cache' = proc_cache
                      /\ img = proc_cache[pid].image
                 ELSE /\ last'.lookup = Some(TRUE)
                      /\ img = IF IsSome(Unwrap(last'.os))
                               THEN Unwrap(Unwrap(last'.os))
                               ELSE STR_UNKNOWN
                      /\ DOMAIN proc_cache' = DOMAIN proc_cache \cup {pid}
                      /\ proc_cache'[pid] = [image |-> img, ts |-> now,
                                             is_trusted_signed |-> FALSE,
                                             signer_subject |-> None]
                      /\ \A q \in DOMAIN proc_cache \ {pid} :
                             proc_cache'[q] = proc_cache[q]]_vars

\* an access made after the clock had passed the image ttl asked the
\* operating system, the query failed, and the placeholder was recorded
C26_Witness ==
    /\ last.op = "file_access"
    /\ last.lookup = Some(TRUE)
    /\ last.os = Some(None)
    /\ now > IMAGE_TTL_MS
    /\ proc_cache[200].image = STR_UNKNOWN
    /\ proc_cache[200].ts > IMAGE_TTL_MS
    /\ ~proc_cache[200].is_trusted_signed

----------------------------------------------------------------------------
(* The dispatch of the file callback, under SpecKeys *)

\* the binding of key q is the same before and after the step
SameBinding(q) == MapGet(filekey_cache', q) = MapGet(filekey_cache, q)

\* C27: a record of the file provider whose id is not 12 sends no alert and
\* leaves proc_cache, the registry and last_alert as they were. With id 65 or
\* 66 it changes at most the binding of its own file_key; with id 0 it changes
\* at most the binding of its own file_key, and only when file_key # 0 and the
\* record has a FileName, which becomes the binding; with any other id, or
\* without a property it needs, it changes nothing.
C27_DispatchFrame ==
    [][(IsSome(last'.event_id) /\ last'.event_id # Some(12))
          => LET id == Unwrap(last'.event_id)
                 k == Unwrap(last'.file_key)
             IN  /\ alert_tx' = alert_tx
                 /\ proc_cache' = proc_cache
                 /\ whitelisted_file_objects' = whitelisted_file_objects
                 /\ last_alert' = last_alert
                 /\ \A q \in BoundKeys \ {k} : SameBinding(q)
                 /\ id \notin {0, 65, 66} => filekey_cache' = filekey_cache
                 /\ (id = 0 /\ ~SameBinding(k))
                       => /\ k # 0
                          /\ IsSome(last'.file_name)
                          /\ MapGet(filekey_cache', k) = last'.file_name
                 /\ (id = 0 /\ (k = 0 \/ ~IsSome(last'.file_name)))
                       => filekey_cache' = filekey_cache]_vars

\* a bind record without FileName was dropped while another key was bound,
\* after an alert had been sent
C27_Witness ==
    /\ last.op = "ignored"
    /\ last.event_id = Some(0)
    /\ last.file_key = Some(16)
    /\ last.file_name = None
    /\ DOMAIN filekey_cache = {43981}
    /\ alert_tx # <<>>

----------------------------------------------------------------------------
(* The frame of on_process_start, under SpecProc *)

\* C28: a process record whose image does not end with ".exe", whatever the
\* case, leaves proc_cache as it was and verifies no signature; a process
\* record of any image sends no alert and leaves filekey_cache, the registry
\* and last_alert as they were.
C28_ProcessStartFrame ==
    [][last'.op = "process_start"
          => /\ alert_tx' = alert_tx
             /\ filekey_cache' = filekey_cache
             /\ whitelisted_file_objects' = whitelisted_file_objects
             /\ last_alert' = last_alert
             /\ ~ends_with(to_lowercase(Unwrap(last'.proc_path)), STR_DOT_EXE)
                   => /\ proc_cache' = proc_cache
                      /\ \A i \in DOMAIN last'.locks :
                             last'.locks[i] # Call("verify_file_signature")]_vars

\* a record with a .dll image, its verdict signed, arrived for a pid that has
\* an untrusted ProcMeta and after an alert for that pid, and changed nothing
C28_Witness ==
    /\ last.op = "process_start"
    /\ last.proc_path = Some(IMG_DLL)
    /\ last.verdict = Some([is_signed |-> TRUE, signer_subject |-> Some(SUBJ_MS)])
    /\ last.locks = <<>>
    /\ Unwrap(last.pid) \in DOMAIN proc_cache
    /\ last.prev = Some(proc_cache[Unwrap(last.pid)])
    /\ ~proc_cache[Unwrap(last.pid)].is_trusted_signed
    /\ alert_tx # <<>>
    /\ last_alert # EmptyMap

----------------------------------------------------------------------------
(* SpecFrame: accesses to targets that no rule matches, by trusted and     *)
(* untrusted pids, with and without a file object                          *)

FrameRecords ==
    [event_id : {12}, pid : {200, 300}, FileKey : {None},
     FileObject : {None, Some(43981)},
     FileName : {Some(PATH_LOGIN), Some(PATH_TMP)}]
FrameImageNames == {Some(IMG_SIGNED)}
FrameVerdicts == {v \in Verdicts : v.signer_subject = Some(SUBJ_MS)}
FrameOsImages == {None, Some(IMG_EXPLORER)}
FrameDeltas == {IMAGE_TTL_MS + 1}

InitFrame == InitWith(Configs, FrameSteps)

NextFrame ==
    \/ \E enum \in {None}, handles \in {None} : Preflight(enum, handles)
    \/ \E pid \in {200}, image_name \in FrameImageNames, verdict \in FrameVerdicts :
           ProcessCb(pid, image_name, verdict)
    \/ \E rec \in FrameRecords, os \in FrameOsImages : FileCb(rec, os)
    \/ \E d \in FrameDeltas : Tick(d)

SpecFrame == InitFrame /\ [][NextFrame]_vars

\* C29: an access whose target no rule matches changes none of the engine's
\* maps, asks the operating system nothing and sends no alert, whether or not
\* the pid is trusted and the record names a file object.
C29_UnmatchedAccessFrame ==
    [][(/\ last'.op = "file_access"
        /\ IsSome(last'.target)
        /\ Hits(Unwrap(last'.target)) = {})
          => /\ EngineMaps' = EngineMaps
             /\ alert_tx' = alert_tx
             /\ last'.lookup = None
             /\ last'.send = None
             /\ \A i \in DOMAIN last'.locks : last'.locks[i].ev # "call"]_vars

\* an access to a target outside the rules, naming a file object the registry
\* does not hold, by a pid whose trusted ProcMeta is older than the image ttl:
\* the ProcMeta is still there and the object has not been learnt
C29_Witness ==
    /\ last.op = "file_access"
    /\ last.target = Some(PATH_TMP)
    /\ last.file_object = Some(43981)
    /\ last.pid = Some(200)
    /\ FreshTrustedMeta(proc_cache, 200, now)
    /\ now - proc_cache[200].ts > IMAGE_TTL_MS
    /\ 43981 \notin DOMAIN whitelisted_file_objects

----------------------------------------------------------------------------
(* SpecPreflight: Engine::preflight_trusted_handles applied to an engine   *)
(* that has already handled records. main calls it once, on the engine     *)
(* Engine::new returned, where the registry is empty; the method is public *)
(* and takes &self, and here it is also called on the running engine, so   *)
(* that the snapshot meets owner sets the registry already holds.          *)

\* Engine::preflight_trusted_handles on the running engine
PreflightLive(enum, handles) ==
    /\ session = "running"
    /\ steps > 0
    /\ steps' = steps - 1
    /\ LET r == preflight_trusted_handles(cfg, proc_cache, whitelisted_file_objects,
                                          enum, handles, now)
       IN  /\ proc_cache' = r.cache
           /\ whitelisted_file_objects' = r.wl
    /\ last' = [Op("preflight") EXCEPT !.enum = enum, !.handles = handles,
                                       !.locks = preflight_locks(cfg, enum, handles)]
    /\ UNCHANGED <<cfg, etw, inflight, filekey_cache, last_alert, alert_tx, alert_rx, session, now,
                   pc, observed, send_failed>>

PreflightRecords ==
    [event_id : {12}, pid : {200, 300}, FileKey : {None},
     FileObject : {Some(43981), Some(16)}, FileName : {Some(PATH_LOGIN)}]
PreflightImageNames == {Some(IMG_SIGNED)}
PreflightVerdicts == {v \in Verdicts : v.signer_subject = Some(SUBJ_MS)}
PreflightOsImages == {None}
PreflightDeltas == {1000}

InitPreflight == InitWith(Configs, PreflightSteps)

NextPreflight ==
    \/ \E enum \in EnumResults, handles \in HandleTables : Preflight(enum, handles)
    \/ \E enum \in EnumResults, handles \in HandleTables : PreflightLive(enum, handles)
    \/ \E pid \in {300}, image_name \in PreflightImageNames, verdict \in PreflightVerdicts :
           ProcessCb(pid, image_name, verdict)
    \/ \E rec \in PreflightRecords, os \in PreflightOsImages : FileCb(rec, os)
    \/ \E d \in PreflightDeltas : Tick(d)

SpecPreflight == InitPreflight /\ [][NextPreflight]_vars

\* the pids of a process enumeration whose image the operating system gives
\* and whose verdict the configuration trusts; none when the enumeration failed
VerifiedPids(enum) ==
    IF ~IsSome(enum) THEN {}
    ELSE {pid \in DOMAIN Unwrap(enum) :
              /\ pid \in {0, 4} \/ IsSome(Unwrap(enum)[pid].image)
              /\ VerdictTrusted(Unwrap(enum)[pid].verdict)}

\* C30: a run of preflight_trusted_handles adds to owner sets only pids it
\* verified as trusted, writes a trusted ProcMeta stamped now for each pid it
\* verified and leaves every other ProcMeta as it was, and keeps every owner
\* the registry already held.
C30_PreflightFrame ==
    [][last'.op = "preflight"
          => LET T == VerifiedPids(last'.enum)
             IN  /\ \A obj \in DOMAIN whitelisted_file_objects' :
                        Owners(whitelisted_file_objects', obj)
                            \ Owners(whitelisted_file_objects, obj) \subseteq T
                 /\ \A pid \in T :
                        /\ pid \in DOMAIN proc_cache'
                        /\ proc_cache'[pid].is_trusted_signed
                        /\ proc_cache'[pid].ts = now
                 /\ \A pid \in (DOMAIN proc_cache') \ T :
                        /\ pid \in DOMAIN proc_cache
                        /\ proc_cache'[pid] = proc_cache[pid]
                 /\ \A obj \in DOMAIN whitelisted_file_objects :
                        whitelisted_file_objects[obj]
                            \subseteq Owners(whitelisted_file_objects', obj)]_vars

\* preflight has just run on a registry that held pid 300 as an owner of the
\* object, an owner this run did not verify; the run verified pid 200, which
\* holds a handle on the object, and both pids now own it
C30_Witness ==
    /\ last.op = "preflight"
    /\ VerifiedPids(last.enum) = {200}
    /\ Owners(whitelisted_file_objects, 43981) = {200, 300}
    /\ FreshTrustedMeta(proc_cache, 200, now)
    /\ proc_cache[200].ts = now
    /\ now > 0

----------------------------------------------------------------------------
(* Startup ordering *)

\* the handles of a snapshot that preflight_trusted_handles is to seed: those
\* of the pids it verified, naming an object other than 0
SeedHandles(enum, handles) ==
    IF ~IsSome(handles) THEN {}
    ELSE {e \in Unwrap(handles) :
              e.UniqueProcessId \in VerifiedPids(enum) /\ e.Object # 0}

\* C31: until preflight_trusted_handles has run the session is idle and the
\* engine's maps are empty; the step that starts the session is the step in
\* which preflight writes a trusted ProcMeta for every pid it verified and the
\* owner of every handle it is to seed; and every record is handled with
\* preflight done.
C31_PreflightBeforeSession ==
    /\ [](pc = "boot" => /\ session = "idle"
                         /\ last.op = "new"
                         /\ proc_cache = EmptyMap
                         /\ whitelisted_file_objects = EmptyMap)
    /\ [][IF pc = "boot"
          THEN /\ last'.op = "preflight"
               /\ pc' = "running"
               /\ session' = "running"
               /\ \A pid \in VerifiedPids(last'.enum) :
                      FreshTrustedMeta(proc_cache', pid, now)
               /\ \A e \in SeedHandles(last'.enum, last'.handles) :
                      e.UniqueProcessId \in Owners(whitelisted_file_objects', e.Object)
          ELSE pc = "running" /\ session = "running"]_vars

\* the first record after startup is an access to a protected target by
\* pid 200, which no process record has named: the ProcMeta that makes it
\* trusted and the owner set of the object are those preflight wrote
C31_Witness ==
    /\ steps = TrustSteps - 1
    /\ last.op = "file_access"
    /\ last.pid = Some(200)
    /\ last.trusted = Some(TRUE)
    /\ last.file_object = Some(43981)
    /\ FreshTrustedMeta(proc_cache, 200, now)
    /\ 200 \in Owners(whitelisted_file_objects, 43981)
    /\ alert_tx = <<>>

----------------------------------------------------------------------------
(* SpecOrder: the session logs records into its buffer while the one thread *)
(* that processes the trace hands them to the callback                      *)

\* the positions of the buffer whose record the callback has not handled
Pending == (1 .. Len(etw.log)) \ etw.taken

\* the kernel logs a record of the kernel-file provider into the session
Emit(rec) ==
    /\ session = "running"
    /\ Len(etw.log) < OrderLen
    /\ etw' = [etw EXCEPT !.log = Append(@, rec)]
    /\ last' = Op("emit")
    /\ UNCHANGED <<cfg, inflight, proc_cache, filekey_cache, last_alert,
                   whitelisted_file_objects, alert_tx, alert_rx, session, now, pc,
                   steps, observed, send_failed>>

\* faulty variant: the pending record logged last is handled first
Deliver_newest_first(os) ==
    /\ Pending # {}
    /\ LET i == CHOOSE x \in Pending : \A y \in Pending : y <= x
       IN  /\ HandleFileRecord(etw.log[i], os)
           /\ etw' = [etw EXCEPT !.taken = @ \cup {i}]

\* the thread of start_and_process (ProcessTrace in Vigil) calls the callback
\* on the oldest record it has not handled, and returns from it before it
\* takes the next
Deliver(os) ==
    /\ Pending # {}
    /\ LET i == CHOOSE x \in Pending : \A y \in Pending : x <= y
       IN  /\ HandleFileRecord(etw.log[i], os)
           /\ etw' = [etw EXCEPT !.taken = @ \cup {i}]

OrderRecords ==
    [event_id : {0, 12, 65}, pid : {300}, FileKey : {Some(16), Some(7)},
     FileObject : {None}, FileName : {None, Some(PATH_LOGIN)}]

InitOrder == InitWith({ConfigLoad(RAW_SIGNERS)}, OrderSteps)

NextOrder ==
    \/ \E enum \in {None}, handles \in {None} : Preflight(enum, handles)
    \/ \E rec \in OrderRecords : Emit(rec)
    \/ \E os \in {Some(IMG_ATTACKER)} : Deliver(os)

SpecOrder == InitOrder /\ [][NextOrder]_vars

\* the records handled so far, in the order the session logged them
Handled == SubSeq(etw.log, 1, Cardinality(etw.taken))

RECURSIVE Bindings(_)
\* the bindings a sequence of records leaves when each takes effect in turn:
\* a bind with a key other than 0 and a name binds the key, a close with a key
\* other than 0 unbinds it
Bindings(s) ==
    IF s = <<>> THEN EmptyMap
    ELSE LET m == Bindings(SubSeq(s, 1, Len(s) - 1))
             r == s[Len(s)]
             k == RecFileKey(r)
         IN  IF r.event_id = 0 /\ k # 0 /\ IsSome(r.FileName)
             THEN MapInsert(m, k, Unwrap(r.FileName))
             ELSE IF r.event_id \in {65, 66} /\ k # 0
             THEN MapRemove(m, k)
             ELSE m

\* C32: the bindings the engine holds are those left by the records handled so
\* far taking effect in the order they were logged, and an access without an
\* inline name resolves its target from the binds and closes logged before it,
\* however logging and handling interleave.
C32_PerKeyOrder ==
    /\ [](filekey_cache = Bindings(Handled))
    /\ [][(last'.op = "file_access" /\ ~IsSome(last'.file_name))
             => last'.target = MapGet(Bindings(Handled), Unwrap(last'.file_key))]_vars

\* a bind of key 16, an access by that key without an inline name and a close
\* of the key were logged in that order and all three are handled: the alert of
\* the access carries the name of the bind, and the key is unbound
C32_Witness ==
    /\ Len(etw.log) = 3
    /\ etw.log[1].event_id = 0 /\ etw.log[1].FileKey = Some(16)
    /\ etw.log[1].FileName = Some(PATH_LOGIN)
    /\ etw.log[2].event_id = 12 /\ etw.log[2].FileKey = Some(16)
    /\ etw.log[2].FileName = None
    /\ etw.log[3].event_id = 65 /\ etw.log[3].FileKey = Some(16)
    /\ etw.taken = {1, 2, 3}
    /\ last.op = "clear_file_key"
    /\ last.prev = Some(PATH_LOGIN)
    /\ Len(alert_tx) = 1
    /\ alert_tx[1].target = PATH_LOGIN
    /\ 16 \notin DOMAIN filekey_cache

----------------------------------------------------------------------------
(* Pid reuse, checked under SpecProc *)

\* the step is an access by the pid, other than 0 and 4, that the process
\* record of the step before named
AccessAfterStart ==
    /\ last.op = "process_start"
    /\ AccessStep
    /\ last'.pid = last.pid
    /\ last.pid \notin {Some(0), Some(4)}

\* C33: an access that follows a process record of its pid is trusted on the
\* strength of a signature only when the verdict on the image that record
\* names is a trusted one, whatever the image's extension: the verdict of an
\* earlier process of the same pid is not applied.
C33_StartSupersedesVerdict ==
    [][(/\ AccessAfterStart
        /\ last'.trusted = Some(TRUE)
        /\ ~AllowlistedImage(Unwrap(last'.proc_path)))
          => VerdictTrusted(Unwrap(last.verdict))]_vars

----------------------------------------------------------------------------
(* Config::load, checked under SpecMatch *)

\* the string has no letter that to_lowercase would change
IsLower(str) == \A i \in DOMAIN str : LowerChar(str[i]) = str[i]

\* the parsed texts that Config::load turns into the configuration in force
LoadedFrom == {raw \in MatchRawConfigs : ConfigLoad(raw) = cfg}

\* C34: in the configuration in force every rule substring, signer needle and
\* process-name suffix is lower-case; when the parsed text has rules, the rules
\* in force are those, names kept, and the legacy strings make none; when it
\* has none, the rules in force are the legacy strings in their order, each
\* with the lower-cased string as substring and as name.
C34_ConfigLoad ==
    /\ \A i \in DOMAIN cfg.watch.protected : IsLower(cfg.watch.protected[i].substring)
    /\ \A i \in DOMAIN cfg.allowlist.signer_subject_allow :
           IsLower(cfg.allowlist.signer_subject_allow[i])
    /\ \A i \in DOMAIN cfg.allowlist.process_name_allow :
           IsLower(cfg.allowlist.process_name_allow[i])
    /\ LoadedFrom # {}
    /\ \A raw \in LoadedFrom :
           LET rules == raw.watch.protected
               legacy == raw.watch.protected_substrings
           IN  IF Len(rules) # 0
               THEN /\ Len(cfg.watch.protected) = Len(rules)
                    /\ \A i \in DOMAIN rules :
                           /\ cfg.watch.protected[i].name = rules[i].name
                           /\ cfg.watch.protected[i].substring
                                 = to_lowercase(rules[i].substring)
               ELSE /\ Len(cfg.watch.protected) = Len(legacy)
                    /\ \A i \in DOMAIN legacy :
                           /\ cfg.watch.protected[i].substring = to_lowercase(legacy[i])
                           /\ cfg.watch.protected[i].name
                                 = cfg.watch.protected[i].substring

\* a text without rules and with the legacy strings "D" and "Ld" was loaded:
\* the rules in force are "d" and "ld", and a path has been matched by one
C34_Witness ==
    /\ \E raw \in LoadedFrom :
           /\ Len(raw.watch.protected) = 0
           /\ raw.watch.protected_substrings = << <<"D">>, <<"L", "d">> >>
    /\ cfg.watch.protected = << [substring |-> <<"d">>, name |-> <<"d">>],
                                [substring |-> <<"l", "d">>, name |-> <<"l", "d">>] >>
    /\ cfg.allowlist.signer_subject_allow = << <<"m", "s">> >>
    /\ last.op = "match_protected_rule"
    /\ IsSome(last.rule)

----------------------------------------------------------------------------
(* SpecRace: Engine::resolve_process_image called by one thread while       *)
(* another delivers process records. The method locks proc_cache twice, and *)
(* asks the operating system for the image in between.                      *)

\* resolve_process_image up to the end of its first lock of proc_cache: it
\* returns for pid 0 and 4 and for a ProcMeta no older than the image ttl, and
\* goes on to ask the operating system otherwise
ResolveBegin(pid) ==
    /\ session = "running"
    /\ steps > 0
    /\ steps' = steps - 1
    /\ inflight = None
    /\ IF pid = 0 \/ pid = 4
       THEN /\ inflight' = None
            /\ last' = [Op("resolve_process_image") EXCEPT
                           !.pid = Some(pid), !.proc_path = Some(STR_SYSTEM)]
       ELSE IF pid \in DOMAIN proc_cache /\ now - proc_cache[pid].ts <= IMAGE_TTL_MS
       THEN /\ inflight' = None
            /\ last' = [Op("resolve_process_image") EXCEPT
                           !.pid = Some(pid),
                           !.proc_path = Some(proc_cache[pid].image)]
       ELSE /\ inflight' = Some(pid)
            /\ last' = [Op("resolve_lookup") EXCEPT !.pid = Some(pid)]
    /\ UNCHANGED <<cfg, etw, proc_cache, filekey_cache, last_alert,
                   whitelisted_file_objects, alert_tx, alert_rx, session, now, pc,
                   observed, send_failed>>

\* the rest of resolve_process_image: the answer of the operating system is
\* in, proc_cache is locked again and the placeholder inserted
ResolveEnd(os) ==
    /\ inflight # None
    /\ LET pid == Unwrap(inflight)
           o == get_process_image_path(pid, os)
           img == IF IsSome(o) THEN Unwrap(o) ELSE STR_UNKNOWN
       IN  /\ proc_cache' = MapInsert(proc_cache, pid,
                                      [image |-> img, ts |-> now,
                                       is_trusted_signed |-> FALSE,
                                       signer_subject |-> None])
           /\ last' = [Op("resolve_insert") EXCEPT
                          !.pid = Some(pid), !.proc_path = Some(img),
                          !.prev = MapGet(proc_cache, pid), !.os = Some(os)]
    /\ inflight' = None
    /\ UNCHANGED <<cfg, etw, filekey_cache, last_alert, whitelisted_file_objects,
                   alert_tx, alert_rx, session, now, pc, steps, observed,
                   send_failed>>

RaceVerdicts == {v \in Verdicts : v.signer_subject # Some(SUBJ_EVIL)}

InitRace == InitWith(Configs, RaceSteps)

NextRace ==
    \/ \E enum \in {None}, handles \in {None} : Preflight(enum, handles)
    \/ \E pid \in {200, 300}, image_name \in {Some(IMG_SIGNED), Some(IMG_DLL)}, verdict \in RaceVerdicts :
           ProcessCb(pid, image_name, verdict)
    \/ \E pid \in Pids : ResolveBegin(pid)
    \/ \E os \in {None, Some(IMG_ATTACKER)} : ResolveEnd(os)
    \/ \E d \in {IMAGE_TTL_MS + 1} : Tick(d)

SpecRace == InitRace /\ [][NextRace]_vars

\* C35: when resolve_process_image inserts its placeholder, the pid has no
\* ProcMeta younger than the image ttl: none that a process record wrote
\* since the method looked.
C35_PlaceholderSparesFreshMeta ==
    [][last'.op = "resolve_insert"
          => LET pid == Unwrap(last'.pid)
             IN  ~(/\ pid \in DOMAIN proc_cache
                   /\ now - proc_cache[pid].ts <= IMAGE_TTL_MS)]_vars

----------------------------------------------------------------------------
(* SpecLocks: every handler on every kind of record, after a preflight that *)
(* may seed both maps                                                       *)

LockRecords ==
    [event_id : {0, 12, 65}, pid : {200, 300}, FileKey : {None, Some(16)},
     FileObject : {None, Some(43981)}, FileName : {None, Some(PATH_LOGIN)}]

InitLocks == InitWith(Configs, LockSteps)

NextLocks ==
    \/ \E enum \in EnumResults, handles \in HandleTables : Preflight(enum, handles)
    \/ \E pid \in {300}, image_name \in {Some(IMG_SIGNED)}, verdict \in Verdicts :
           ProcessCb(pid, image_name, verdict)
    \/ \E rec \in LockRecords, os \in {None, Some(IMG_ATTACKER)} : FileCb(rec, os)
    \/ \E d \in {IMAGE_TTL_MS + 1} : Tick(d)

SpecLocks == InitLocks /\ [][NextLocks]_vars

\* C36: a handler acquires a map mutex only while it holds none, and holds
\* none when it returns.
C36_OneMutexAtATime ==
    /\ \A i \in DOMAIN last.locks :
           last.locks[i].ev = "acquire" => Held(last.locks, i) = {}
    /\ Held(last.locks, Len(last.locks) + 1) = {}

\* an access by key, by an untrusted pid, through an object the registry
\* holds: the handler has locked each of the four maps in turn
C36_Witness ==
    /\ last.op = "file_access"
    /\ last.kind = Some(KIND_SUSPICIOUS)
    /\ \A m \in {"proc_cache", "filekey_cache", "last_alert", "whitelisted_file_objects"} :
           \E i \in DOMAIN last.locks : last.locks[i] = Acquire(m)

----------------------------------------------------------------------------
(* The window of the dedup map, under SpecDedup *)

\* C37: an access by an untrusted pid whose (pid, target) has an entry in
\* last_alert younger than suppress_ms sends nothing and leaves last_alert as
\* it was, so the entry keeps the instant of the alert; any other such access
\* sends an alert for the pair and sets the entry to the instant of the access.
C37_WindowIsFixed ==
    [][(AccessStep /\ last'.trusted = Some(FALSE))
          => LET key == dedupe_key(Unwrap(last'.pid), Unwrap(last'.target))
             IN  IF /\ key \in DOMAIN last_alert
                    /\ now' - last_alert[key] < cfg.general.suppress_ms
                 THEN /\ last_alert' = last_alert
                      /\ alert_tx' = alert_tx
                 ELSE /\ Sent
                      /\ NewestAlert.pid = Unwrap(last'.pid)
                      /\ NewestAlert.target = Unwrap(last'.target)
                      /\ NewestAlert.at = now'
                      /\ key \in DOMAIN last_alert'
                      /\ last_alert'[key] = now']_vars

\* an access has just been suppressed 1000 ms after the only alert of its
\* pair: the entry still holds the instant of the alert, not of the access
C37_Witness ==
    /\ last.op = "file_access"
    /\ last.trusted = Some(FALSE)
    /\ last.send = None
    /\ LET key == dedupe_key(Unwrap(last.pid), Unwrap(last.target))
       IN  /\ key \in DOMAIN last_alert
           /\ now - last_alert[key] = 1000
           /\ Len(alert_tx) = 1
           /\ alert_tx[1].pid = Unwrap(last.pid)
           /\ alert_tx[1].target = Unwrap(last.target)
           /\ alert_tx[1].at = last_alert[key]

----------------------------------------------------------------------------
(* The dedup key and the alert kind, under SpecPreflight *)

\* an alert of the given kind for (pid, target) less than suppress_ms before
\* instant t
RecentAlertOfKind(tx, pid, target, kind, t) ==
    \E i \in DOMAIN tx :
        /\ tx[i].pid = pid
        /\ tx[i].target = target
        /\ tx[i].kind = kind
        /\ t - tx[i].at < cfg.general.suppress_ms

\* C38: an access by an untrusted pid that file_cb classifies as
\* suspicious_whitelisted_handle_access sends nothing when a
\* protected_resource_access alert for the same (pid, target) was sent less
\* than suppress_ms earlier, and one classified as protected_resource_access
\* sends nothing when a suspicious_whitelisted_handle_access alert for the pair
\* was sent less than suppress_ms earlier; neither changes last_alert.
C38_KindNotInKey ==
    [][(AccessStep /\ last'.trusted = Some(FALSE))
          => LET p == Unwrap(last'.pid)
                 tg == Unwrap(last'.target)
             IN  /\ (/\ last'.kind = Some(KIND_SUSPICIOUS)
                     /\ RecentAlertOfKind(alert_tx, p, tg, KIND_PROTECTED, now'))
                        => (/\ last'.send = None
                            /\ alert_tx' = alert_tx
                            /\ last_alert' = last_alert)
                 /\ (/\ last'.kind = Some(KIND_PROTECTED)
                     /\ RecentAlertOfKind(alert_tx, p, tg, KIND_SUSPICIOUS, now'))
                        => (/\ last'.send = None
                            /\ alert_tx' = alert_tx
                            /\ last_alert' = last_alert)]_vars

\* pid 300 was alerted for the target as protected_resource_access through an
\* object nobody owns; 1000 ms later its access through the whitelisted object
\* 43981, classified suspicious_whitelisted_handle_access, has been suppressed
C38_Witness ==
    /\ last.op = "file_access"
    /\ last.trusted = Some(FALSE)
    /\ last.pid = Some(300)
    /\ last.file_object = Some(43981)
    /\ last.kind = Some(KIND_SUSPICIOUS)
    /\ last.send = None
    /\ Len(alert_tx) = 1
    /\ alert_tx[1].pid = 300
    /\ alert_tx[1].target = Unwrap(last.target)
    /\ alert_tx[1].kind = KIND_PROTECTED
    /\ now - alert_tx[1].at = 1000
    /\ cfg.general.suppress_ms > 1000

----------------------------------------------------------------------------
(* The registry of whitelisted file objects over time, under SpecLocks *)

\* C39: no step takes a file object out of whitelisted_file_objects or a pid
\* out of the owners of one, whatever record it handles; and an access by an
\* untrusted pid through a file object the registry holds is classified
\* suspicious_whitelisted_handle_access, as is the alert it sends, if any.
C39_RegistryOnlyGrows ==
    [][/\ \A obj \in DOMAIN whitelisted_file_objects :
              /\ obj \in DOMAIN whitelisted_file_objects'
              /\ whitelisted_file_objects[obj] \subseteq whitelisted_file_objects'[obj]
       /\ (/\ AccessStep
           /\ last'.trusted = Some(FALSE)
           /\ Unwrap(last'.file_object) \in DOMAIN whitelisted_file_objects)
             => /\ last'.kind = Some(KIND_SUSPICIOUS)
                /\ Sent => NewestAlert.kind = KIND_SUSPICIOUS]_vars

\* pid 300 owns object 43981 since the startup snapshot, a later process
\* record has left it untrusted, and its access through the object has been
\* reported as suspicious_whitelisted_handle_access
C39_Witness ==
    /\ last.op = "file_access"
    /\ last.pid = Some(300)
    /\ last.trusted = Some(FALSE)
    /\ last.file_object = Some(43981)
    /\ last.kind = Some(KIND_SUSPICIOUS)
    /\ last.send = Some(TRUE)
    /\ alert_tx[Len(alert_tx)].kind = KIND_SUSPICIOUS
    /\ 43981 \in DOMAIN whitelisted_file_objects
    /\ 300 \in whitelisted_file_objects[43981]
    /\ 300 \in DOMAIN proc_cache
    /\ ~proc_cache[300].is_trusted_signed

====
